---- MODULE Spec2Model ----
(***************************************************************************)
(* Tideland Go Text: the simple markup language (package sml).             *)
(*                                                                         *)
(* The reader (sml/reader.go) is modelled as a state machine that takes    *)
(* one step per call of mlReader.readRune: the call stack of the recursive *)
(* descent is the variable calls, the builder the parser drives is nb (a   *)
(* NodeBuilder) or tb (a KeyStringValueTreeBuilder).  Strings are          *)
(* sequences of one-character strings.                                     *)
(***************************************************************************)
EXTENDS Integers, Sequences, FiniteSets, TLC

VARIABLES
  src,       \* the runes the io.Reader has delivered so far (or will deliver)
  open,      \* TRUE while the io.Reader may deliver runes beyond src
  pos,       \* number of runes of src the bufio.Reader has handed out
  index,     \* mlReader.index
  lastRune,  \* bufio.Reader: the last operation was a successful ReadRune
  calls,     \* the parser procedures waiting for their next rune, innermost last
  ret,       \* what ReadSML returned (NoRet while it runs)
  bk,        \* the builder passed to ReadSML: "node" or "kv"
  nb,        \* NodeBuilder{stack, done}
  tb,        \* KeyStringValueTreeBuilder{stack, tree, done}
  events,    \* the builder calls made so far, each with the error it returned
  phase,     \* "read", "write", "reread", "api", "validate"
  root1,     \* the root of the first reading, kept for the comparison
  wr,        \* mlWriter and its WriterContext
  out,       \* what has been written to the io.Writer
  rootRes,   \* the results of the calls of NodeBuilder.Root(), oldest first
  vres,      \* ValidateTag: the raw tag and what was returned for it
  ws,        \* two WriterContexts, their processors, sinks and WriteSML calls
  framed,    \* a document inside other text: the parts and the result of reading all
  etc,       \* package etc: the configurations read so far and the last Write
  mt,        \* package stringex: a call of Matches and what it returned
  scr,       \* package scroller: the source, the target and the Scroller
  dj,        \* package dj: a document, a path and the Value of At
  gjp        \* package gjp: two documents and the Diff of Compare

\* what the actions on the documents above leave alone
moreVars  == <<mt, scr, dj, gjp>>
libVars   == <<etc, moreVars>>
otherVars == <<framed, libVars>>

vars == <<src, open, pos, index, lastRune, calls, ret, bk, nb, tb, events,
          phase, root1, wr, out, rootRes, vres, ws, otherVars>>

NotFramed == [pre |-> <<>>, core |-> <<>>, post |-> <<>>, all |-> <<>>]
NoEtc     == [cfgs |-> <<>>, pretty |-> FALSE, werr |-> [msg |-> "nil", at |-> -1, what |-> <<>>],
              heap |-> <<>>, made |-> <<>>, env |-> <<>>]

MoreIdle ==
  /\ mt = [on |-> FALSE]
  /\ scr = [on |-> FALSE]
  /\ dj = [on |-> FALSE]
  /\ gjp = [on |-> FALSE]

OthersIdle ==
  /\ framed = NotFramed
  /\ etc = NoEtc
  /\ MoreIdle

readerVars  == <<src, open, pos, index, lastRune, calls, ret>>
builderVars == <<bk, nb, tb, events>>
writerVars  == <<wr, out>>

----------------------------------------------------------------------------
(* Bounds of the model. *)

MaxLen    == 8   \* longest document the environment supplies
MaxRun    == 2   \* longest tag, text, raw text or comment of such a document
MaxPre    == 1   \* longest text before the first opening brace
MaxCalls  == 6   \* builder calls a client makes directly
MaxTagLen == 3   \* longest raw tag handed to ValidateTag

----------------------------------------------------------------------------
(* Characters. *)

LowerSeq == <<"a","b","c","d","e","f","g","h","i","j","k","l","m",
              "n","o","p","q","r","s","t","u","v","w","x","y","z">>
UpperSeq == <<"A","B","C","D","E","F","G","H","I","J","K","L","M",
              "N","O","P","Q","R","S","T","U","V","W","X","Y","Z">>
Lower == {LowerSeq[i] : i \in DOMAIN LowerSeq}
Upper == {UpperSeq[i] : i \in DOMAIN UpperSeq}
Digit == {"0","1","2","3","4","5","6","7","8","9"}
Space == {" ", "\n", "\t", "\r"}

chOpen        == "{"
chClose       == "}"
chEscape      == "^"
chExclamation == "!"
chHash        == "#"

rcText        == 1
rcSpace       == 2
rcOpen        == 3
rcClose       == 4
rcEscape      == 5
rcExclamation == 6
rcHash        == 7
rcTag         == 8
rcEOF         == 9

\* The runes the environment puts into a document.
Alphabet == {"{", "}", "^", "!", "#", "a", "A", ":", " ", "%"}
\* The runes it puts before the first opening brace.
PreAlphabet == {"}", "%"}

----------------------------------------------------------------------------
(* Errors: failure.New(msg, args...); at is the %d argument, what the %q.  *)

Err(m)       == [msg |-> m, at |-> -1, what |-> <<>>]
ErrAt(m, i)  == [msg |-> m, at |-> i, what |-> <<>>]
ErrOf(m, w)  == [msg |-> m, at |-> -1, what |-> w]
NilErr       == Err("nil")
NoRet        == Err("running")
ErrEOF       == Err("EOF")
ErrUnread    == Err("bufio: invalid use of UnreadRune")
ErrPanic     == Err("panic: nil pointer dereference")

----------------------------------------------------------------------------
(* strings.ToLower, strings.Split(s, ":"), strings.TrimSpace, strings.Join *)

ToLowerRune(c) ==
  IF c \in Upper THEN LowerSeq[CHOOSE i \in DOMAIN UpperSeq : UpperSeq[i] = c] ELSE c

ToLower(s) == [i \in DOMAIN s |-> ToLowerRune(s[i])]

RECURSIVE Split(_)
Split(s) ==
  IF \A i \in DOMAIN s : s[i] # ":"
  THEN <<s>>
  ELSE LET i == CHOOSE k \in DOMAIN s : s[k] = ":" /\ \A j \in 1..(k-1) : s[j] # ":"
       IN <<SubSeq(s, 1, i-1)>> \o Split(SubSeq(s, i+1, Len(s)))

RECURSIVE Join(_)
Join(parts) ==
  IF Len(parts) = 0 THEN <<>>
  ELSE IF Len(parts) = 1 THEN parts[1]
  ELSE parts[1] \o <<":">> \o Join(Tail(parts))

TrimSpace(s) ==
  IF \A i \in DOMAIN s : s[i] \in Space THEN <<>>
  ELSE LET a == CHOOSE k \in DOMAIN s : s[k] \notin Space /\ \A j \in 1..(k-1) : s[j] \in Space
           b == CHOOSE k \in DOMAIN s : s[k] \notin Space /\ \A j \in (k+1)..Len(s) : s[j] \in Space
       IN SubSeq(s, a, b)

----------------------------------------------------------------------------
(* The tag grammar validator.  Its source is not part of the files at hand; *)
(* it is modelled from the design (split at the colons, no empty segment,   *)
(* only a-z 0-9 and hyphen, no hyphen first or last in a segment, a letter  *)
(* first).  The tests TestPositiveNodeReading ({Test ^^}) and               *)
(* TestNegativeNodeReading ({Foo ...) need NodeBuilder.BeginTagNode to      *)
(* accept tags with capitals, so the tag is folded to lower case first.     *)

ValidSegment(p) ==
  /\ Len(p) > 0
  /\ \A i \in DOMAIN p : p[i] \in Lower \cup Digit \cup {"-"}
  /\ p[1] # "-"
  /\ p[Len(p)] # "-"

ValidateTag(tag) ==
  LET ltag  == ToLower(tag)
      parts == Split(ltag)
      ok    == /\ \A i \in DOMAIN parts : ValidSegment(parts[i])
               /\ Len(ltag) > 0
               /\ ltag[1] \in Lower
  IN  IF ok THEN [tag |-> parts, err |-> NilErr]
            ELSE [tag |-> <<>>, err |-> ErrOf("invalid tag", tag)]

----------------------------------------------------------------------------
(* The document tree.  One record shape for the four node kinds.           *)

TagNode(t)     == [kind |-> "tag",     tag |-> t,    text |-> <<>>, children |-> <<>>]
TextNodeOf(s)  == [kind |-> "text",    tag |-> <<>>, text |-> s,    children |-> <<>>]
RawNodeOf(s)   == [kind |-> "raw",     tag |-> <<>>, text |-> s,    children |-> <<>>]
CommentOf(s)   == [kind |-> "comment", tag |-> <<>>, text |-> s,    children |-> <<>>]

newTagNode(tag) ==
  LET v == ValidateTag(tag)
  IN  [node |-> TagNode(v.tag), err |-> v.err]

appendChild(tn, n) == [tn EXCEPT !.children = Append(@, n)]

\* stack with its top frame replaced
SetTop(stack, n) == [stack EXCEPT ![Len(stack)] = n]

----------------------------------------------------------------------------
(* NodeBuilder *)

NewNodeBuilder == [stack |-> <<>>, done |-> FALSE]

Root(b) ==
  IF ~b.done
  THEN [ok |-> FALSE, node |-> TagNode(<<>>), err |-> Err("building is not yet done")]
  ELSE [ok |-> TRUE, node |-> b.stack[1], err |-> NilErr]

\* NB_BeginTagNode with the bug that the frame is pushed before the tag is
\* looked at
NB_BeginTagNodePushed(b, tag) ==
  IF b.done THEN [nb |-> b, err |-> Err("building is already done")]
  ELSE LET t == newTagNode(tag)
       IN  [nb |-> [b EXCEPT !.stack = Append(@, t.node)], err |-> t.err]

NB_BeginTagNode(b, tag) ==
  IF b.done THEN [nb |-> b, err |-> Err("building is already done")]
  ELSE LET t == newTagNode(tag)
       IN  IF t.err # NilErr THEN [nb |-> b, err |-> t.err]
           ELSE [nb |-> [b EXCEPT !.stack = Append(@, t.node)], err |-> NilErr]

\* NB_EndTagNode with the bug that every accepted end completes the building
NB_EndTagNodeEager(b) ==
  IF b.done THEN [nb |-> b, err |-> Err("building is already done")]
  ELSE LET l == Len(b.stack)
       IN  IF l = 0 THEN [nb |-> b, err |-> Err("no opening tag")]
           ELSE IF l = 1 THEN [nb |-> [b EXCEPT !.done = TRUE], err |-> NilErr]
           ELSE [nb |-> [b EXCEPT !.done = TRUE,
                           !.stack = Append(SubSeq(@, 1, l-2), appendChild(@[l-1], @[l]))],
                 err |-> NilErr]

\* NB_EndTagNode with the bug that the closed frame becomes the first child
NB_EndTagNodeFirst(b) ==
  IF b.done THEN [nb |-> b, err |-> Err("building is already done")]
  ELSE LET l == Len(b.stack)
       IN  IF l = 0 THEN [nb |-> b, err |-> Err("no opening tag")]
           ELSE IF l = 1 THEN [nb |-> [b EXCEPT !.done = TRUE], err |-> NilErr]
           ELSE [nb |-> [b EXCEPT !.stack =
                           Append(SubSeq(@, 1, l-2),
                                  [@[l-1] EXCEPT !.children = <<b.stack[l]>> \o @])],
                 err |-> NilErr]

NB_EndTagNode(b) ==
  IF b.done THEN [nb |-> b, err |-> Err("building is already done")]
  ELSE LET l == Len(b.stack)
       IN  IF l = 0 THEN [nb |-> b, err |-> Err("no opening tag")]
           ELSE IF l = 1 THEN [nb |-> [b EXCEPT !.done = TRUE], err |-> NilErr]
           ELSE [nb |-> [b EXCEPT !.stack =
                           Append(SubSeq(@, 1, l-2), appendChild(@[l-1], @[l]))],
                 err |-> NilErr]

appendTextNode(tn, text)       == appendChild(tn, TextNodeOf(text))
appendRawNode(tn, raw)         == appendChild(tn, RawNodeOf(raw))
appendCommentNode(tn, comment) == appendChild(tn, CommentOf(comment))

NB_TextNode(b, text) ==
  IF b.done THEN [nb |-> b, err |-> Err("building is already done")]
  ELSE IF Len(b.stack) > 0
       THEN [nb |-> [b EXCEPT !.stack = SetTop(@, appendTextNode(@[Len(@)], text))],
             err |-> NilErr]
       ELSE [nb |-> b, err |-> Err("no opening tag for text")]

\* NB_RawNode with the bug that the raw text is kept as a text node
NB_RawNodeAsText(b, raw) ==
  IF b.done THEN [nb |-> b, err |-> Err("building is already done")]
  ELSE IF Len(b.stack) > 0
       THEN [nb |-> [b EXCEPT !.stack = SetTop(@, appendTextNode(@[Len(@)], raw))],
             err |-> NilErr]
       ELSE [nb |-> b, err |-> Err("no opening tag for raw text")]

NB_RawNode(b, raw) ==
  IF b.done THEN [nb |-> b, err |-> Err("building is already done")]
  ELSE IF Len(b.stack) > 0
       THEN [nb |-> [b EXCEPT !.stack = SetTop(@, appendRawNode(@[Len(@)], raw))],
             err |-> NilErr]
       ELSE [nb |-> b, err |-> Err("no opening tag for raw text")]

\* NB_CommentNode with the bug that a comment outside of a tag is ignored
NB_CommentNodeLax(b, comment) ==
  IF Len(b.stack) > 0 /\ ~b.done
  THEN [nb |-> [b EXCEPT !.stack = SetTop(@, appendCommentNode(@[Len(@)], comment))],
        err |-> NilErr]
  ELSE [nb |-> b, err |-> NilErr]

NB_CommentNode(b, comment) ==
  IF b.done THEN [nb |-> b, err |-> Err("building is already done")]
  ELSE IF Len(b.stack) > 0
       THEN [nb |-> [b EXCEPT !.stack = SetTop(@, appendCommentNode(@[Len(@)], comment))],
             err |-> NilErr]
       ELSE [nb |-> b, err |-> Err("no opening tag for comment")]

----------------------------------------------------------------------------
(* KeyStringValueTreeBuilder.  The string stack and the key/value tree are *)
(* of the library tideland.dev/go/dsa/collections: the stack is a sequence *)
(* of tags, the tree a function from the paths created so far to their     *)
(* values.  alloc is FALSE while tb.stack and tb.tree are nil; a method    *)
(* call on one of the nil pointers panics.                                 *)

NewKeyStringValueTreeBuilder ==
  [alloc |-> FALSE, stack |-> <<>>, tree |-> <<>>, done |-> FALSE]

\* collections.KeyStringValueTree.Create: the nodes of the path that exist are kept
Create(tree, path) ==
  [p \in DOMAIN tree \cup {SubSeq(path, 1, k) : k \in 1..Len(path)} |->
     IF p \in DOMAIN tree THEN tree[p] ELSE <<>>]

TB_BeginTagNode(b, tag) ==
  IF b.done THEN [tb |-> b, err |-> Err("building is already done")]
  ELSE IF ~b.alloc
       THEN [tb |-> [b EXCEPT !.alloc = TRUE, !.stack = <<tag>>,
                              !.tree = (<<tag>> :> <<>>)],
             err |-> NilErr]
       ELSE LET st == Append(b.stack, tag)
            IN  [tb |-> [b EXCEPT !.stack = st, !.tree = Create(@, st)], err |-> NilErr]

TB_EndTagNode(b) ==
  IF b.done THEN [tb |-> b, err |-> Err("building is already done")]
  ELSE IF ~b.alloc THEN [tb |-> b, err |-> ErrPanic]
  ELSE IF Len(b.stack) = 0 THEN [tb |-> [b EXCEPT !.done = TRUE], err |-> Err("stack is empty")]
  ELSE LET st == SubSeq(b.stack, 1, Len(b.stack) - 1)
       IN  [tb |-> [b EXCEPT !.stack = st, !.done = (Len(st) = 0)], err |-> NilErr]

TB_TextNode(b, text) ==
  IF b.done THEN [tb |-> b, err |-> Err("building is already done")]
  ELSE IF ~b.alloc THEN [tb |-> b, err |-> ErrPanic]
  ELSE IF b.stack \notin DOMAIN b.tree
       THEN [tb |-> b, err |-> Err("cannot retrieve value")]
  ELSE IF b.tree[b.stack] # <<>>
       THEN [tb |-> b, err |-> Err("node has multiple values")]
  ELSE LET t == TrimSpace(text)
       IN  IF t # <<>>
           THEN [tb |-> [b EXCEPT !.tree = [@ EXCEPT ![b.stack] = t]], err |-> NilErr]
           ELSE [tb |-> b, err |-> NilErr]

TB_RawNode(b, raw) == TB_TextNode(b, raw)

TB_CommentNode(b, comment) ==
  IF b.done THEN [tb |-> b, err |-> Err("building is already done")]
  ELSE [tb |-> b, err |-> NilErr]

Tree(b) ==
  IF ~b.done THEN [ok |-> FALSE, err |-> Err("building is not yet done")]
  ELSE [ok |-> TRUE, err |-> NilErr]

----------------------------------------------------------------------------
(* The Builder interface: a call of method op on the builder of kind k.    *)

Ev(op, arg) == [op |-> op, arg |-> arg]

NB_Call(b, e) ==
  CASE e.op = "BeginTagNode" -> NB_BeginTagNode(b, e.arg)
    [] e.op = "EndTagNode"   -> NB_EndTagNode(b)
    [] e.op = "TextNode"     -> NB_TextNode(b, e.arg)
    [] e.op = "RawNode"      -> NB_RawNode(b, e.arg)
    [] e.op = "CommentNode"  -> NB_CommentNode(b, e.arg)

TB_Call(b, e) ==
  CASE e.op = "BeginTagNode" -> TB_BeginTagNode(b, e.arg)
    [] e.op = "EndTagNode"   -> TB_EndTagNode(b)
    [] e.op = "TextNode"     -> TB_TextNode(b, e.arg)
    [] e.op = "RawNode"      -> TB_RawNode(b, e.arg)
    [] e.op = "CommentNode"  -> TB_CommentNode(b, e.arg)

\* B is the pair of builders and the log; the result is B after the call
BuilderCall(B, e) ==
  IF bk = "node"
  THEN LET r == NB_Call(B.nb, e)
       IN  [nb |-> r.nb, tb |-> B.tb, err |-> r.err,
            events |-> Append(B.events, [op |-> e.op, arg |-> e.arg, err |-> r.err])]
  ELSE LET r == TB_Call(B.tb, e)
       IN  [nb |-> B.nb, tb |-> r.tb, err |-> r.err,
            events |-> Append(B.events, [op |-> e.op, arg |-> e.arg, err |-> r.err])]

Builders == [nb |-> nb, tb |-> tb, err |-> NilErr, events |-> events]

----------------------------------------------------------------------------
(* The reader: sml/reader.go.                                              *)

\* RuneClass with the bug that the capital letters are no tag characters
RuneClassNoCapitals(r) ==
  CASE r = chOpen        -> rcOpen
    [] r = chClose       -> rcClose
    [] r = chEscape      -> rcEscape
    [] r = chExclamation -> rcExclamation
    [] r = chHash        -> rcHash
    [] r \in Lower       -> rcTag
    [] r \in Digit       -> rcTag
    [] r \in {"-", ":"}  -> rcTag
    [] r \in Space       -> rcSpace
    [] OTHER             -> rcText

\* mlReader.readRune, lines 270-295: the class of a rune that was read
RuneClass(r) ==
  CASE r = chOpen        -> rcOpen
    [] r = chClose       -> rcClose
    [] r = chEscape      -> rcEscape
    [] r = chExclamation -> rcExclamation
    [] r = chHash        -> rcHash
    [] r \in Lower       -> rcTag
    [] r \in Upper       -> rcTag
    [] r \in Digit       -> rcTag
    [] r \in {"-", ":"}  -> rcTag
    [] r \in Space       -> rcSpace
    [] OTHER             -> rcText

Top  == calls[Len(calls)]
Rest == SubSeq(calls, 1, Len(calls) - 1)
Frame(fn, buf) == [fn |-> fn, buf |-> buf, second |-> FALSE]
\* the frame of a loop that has read '!', '#' or '^' and reads the rune after it
Second(fn, buf) == [fn |-> fn, buf |-> buf, second |-> TRUE]
At(fn) == phase \in {"read", "reread"} /\ calls # <<>> /\ Top.fn = fn

\* The length of the buffer of the innermost procedure once it has read c.
BufAfter(c) ==
  LET n == Len(Top.buf)
      grows ==
        CASE Top.fn = "readTag" -> RuneClass(c) = rcTag
          [] Top.fn = "readTextNode" ->
               IF Top.second THEN c \in {chOpen, chClose, chEscape}
               ELSE c \notin {chOpen, chClose, chEscape}
          [] Top.fn = "readRawNode" ->
               IF Top.second THEN c # chClose ELSE c # chExclamation
          [] Top.fn = "readCommentNode" ->
               IF Top.second THEN c # chClose ELSE c # chHash
          [] OTHER -> FALSE
  IN  IF ~grows THEN n ELSE IF Top.second /\ Top.fn # "readTextNode" THEN n + 2 ELSE n + 1

\* The runes the io.Reader may deliver next when src is used up: the
\* environment supplies the documents of at most MaxLen runes with at most
\* MaxPre runes before the first brace and runs of at most MaxRun runes.
Supply ==
  IF ~open \/ Len(src) >= MaxLen \/ calls = <<>> THEN {}
  ELSE IF Top.fn = "readPreliminary"
       THEN {chOpen} \cup (IF Len(src) >= MaxPre THEN {} ELSE PreAlphabet)
  ELSE {c \in Alphabet : BufAfter(c) <= MaxRun}

\* mlReader.readRune: the possible results of one call.  bufio.Reader.ReadRune
\* returns io.EOF at the end of the input, and readRune returns that error
\* (line 267) before it looks at the size.
readRune ==
  IF pos < Len(src)
  THEN {[r |-> src[pos+1], rc |-> RuneClass(src[pos+1]), err |-> NilErr,
         src |-> src, open |-> open]}
  ELSE {[r |-> c, rc |-> RuneClass(c), err |-> NilErr,
         src |-> Append(src, c), open |-> TRUE] : c \in Supply}
       \cup {[r |-> "", rc |-> 0, err |-> ErrEOF, src |-> src, open |-> FALSE]}

\* Consume with the bug that the rune is looked at and left in the reader
ConsumeAgain(o) ==
  /\ src' = o.src
  /\ open' = o.open
  /\ pos' = pos
  /\ index' = index + 1
  /\ lastRune' = (o.err = NilErr)

\* Consume with the bug that mr.index is not incremented
ConsumeNoCount(o) ==
  /\ src' = o.src
  /\ open' = o.open
  /\ pos' = IF o.err = NilErr THEN pos + 1 ELSE pos
  /\ index' = index
  /\ lastRune' = (o.err = NilErr)

\* the reader after the call of readRune with result o
Consume(o) ==
  /\ src' = o.src
  /\ open' = o.open
  /\ pos' = IF o.err = NilErr THEN pos + 1 ELSE pos
  /\ index' = index + 1
  /\ lastRune' = (o.err = NilErr)

\* ConsumeUnread with the bug that mr.index is not taken back
ConsumeUnreadKeepsIndex(o) ==
  /\ src' = o.src
  /\ open' = o.open
  /\ pos' = pos
  /\ index' = index + 1
  /\ lastRune' = FALSE

\* ConsumeUnread with the bug that the rune before is pushed back as well
ConsumeUnreadTwo(o) ==
  /\ src' = o.src
  /\ open' = o.open
  /\ pos' = pos - 1
  /\ index' = index
  /\ lastRune' = FALSE

\* the reader after readRune with result o, mr.index-- and reader.UnreadRune()
ConsumeUnread(o) ==
  /\ src' = o.src
  /\ open' = o.open
  /\ pos' = pos
  /\ index' = index
  /\ lastRune' = FALSE

\* Return with the bug that readTagChildren drops the error of what it called
ReturnDropped(stk, e) ==
  IF stk = <<>>
  THEN [calls |-> <<>>, ret |-> e]
  ELSE [calls |-> stk, ret |-> NoRet]

\* A procedure called from the loop of readTagChildren (whose frame is the top
\* of stk), or the root readTagNode called from ReadSML (stk empty), returns e:
\* an error is returned by every caller up to ReadSML, nil continues the loop.
Return(stk, e) ==
  IF stk = <<>> \/ e # NilErr
  THEN [calls |-> <<>>, ret |-> e]
  ELSE [calls |-> stk, ret |-> NoRet]

\* the parser, the builder and the log after ReadSML or a procedure returned
Continue(r, B) ==
  /\ calls' = r.calls
  /\ ret' = r.ret
  /\ nb' = B.nb
  /\ tb' = B.tb
  /\ events' = B.events

\* EndTagAndReturn with the bug that readTagNode returns without EndTagNode
EndTagForgotten(stk, B) == Continue(Return(stk, NilErr), B)

\* readTagNode, line 99: the children are read, the tag is closed
EndTagAndReturn(stk, B) ==
  LET b == BuilderCall(B, Ev("EndTagNode", <<>>))
  IN  Continue(Return(stk, b.err), b)

\* readTagNode, lines 90-99, after readTag returned tag and the class rc
BeginTag(stk, tag, rc) ==
  LET b == BuilderCall(Builders, Ev("BeginTagNode", tag))
  IN  IF b.err # NilErr THEN Continue(Return(stk, b.err), b)
      ELSE IF rc # rcClose
           THEN Continue([calls |-> Append(stk, Frame("readTagChildren", <<>>)),
                          ret |-> NoRet], b)
           ELSE EndTagAndReturn(stk, b)

\* ContentAndReturn with the bug that the content is trimmed on its way
ContentTrimmed(stk, op, text) ==
  LET b == BuilderCall(Builders, Ev(op, TrimSpace(text)))
  IN  Continue(Return(stk, b.err), b)

\* a content node is handed to the builder and the procedure returns
ContentAndReturn(stk, op, text) ==
  LET b == BuilderCall(Builders, Ev(op, text))
  IN  Continue(Return(stk, b.err), b)

Fail(e) == Continue(Return(Rest, e), Builders)
Loop(buf) == Continue([calls |-> SetTop(calls, Frame(Top.fn, buf)), ret |-> NoRet], Builders)
Goto(fn, buf) == Continue([calls |-> Append(Rest, Frame(fn, buf)), ret |-> NoRet], Builders)

\* Preliminary with the bug that a closing brace before the document is an error
PreliminaryStrict(o) ==
  IF o.err # NilErr THEN Fail(o.err)
  ELSE IF o.rc = rcClose
       THEN Fail([msg |-> "invalid rune before opening", at |-> index + 1, what |-> <<>>])
  ELSE IF o.rc = rcOpen THEN Goto("readTag", <<>>)
  ELSE Loop(<<>>)

\* readPreliminary, lines 73-80, after readRune returned o
Preliminary(o) ==
  IF o.err # NilErr THEN Fail(o.err)
  ELSE IF o.rc = rcEOF
       THEN Fail(Err("unexpected end of file while reading preliminary"))
  ELSE IF o.rc = rcOpen THEN Goto("readTag", <<>>)
  ELSE Loop(<<>>)

readPreliminary ==
  /\ At("readPreliminary")
  /\ \E o \in readRune :
       /\ Consume(o)
       /\ Preliminary(o)
  /\ UNCHANGED <<bk, phase, root1, wr, out, rootRes, vres, ws, otherVars>>

readTag ==
  /\ At("readTag")
  /\ \E o \in readRune :
       /\ Consume(o)
       /\ IF o.err # NilErr THEN Fail(o.err)
          ELSE IF o.rc = rcEOF
               THEN Fail(Err("unexpected end of file while reading a tag"))
          ELSE IF o.rc = rcTag THEN Loop(Append(Top.buf, o.r))
          ELSE IF o.rc = rcSpace \/ o.rc = rcClose THEN BeginTag(Rest, Top.buf, o.rc)
          ELSE Fail(ErrAt("invalid tag character at position", index + 1))
  /\ UNCHANGED <<bk, phase, root1, wr, out, rootRes, vres, ws, otherVars>>

readTagChildren ==
  /\ At("readTagChildren")
  /\ \E o \in readRune :
       IF o.err # NilErr THEN Consume(o) /\ Fail(o.err)
       ELSE IF o.rc = rcEOF
            THEN Consume(o) /\ Fail(Err("unexpected end of file while reading children"))
       ELSE IF o.rc = rcClose THEN Consume(o) /\ EndTagAndReturn(Rest, Builders)
       ELSE IF o.rc = rcOpen
            THEN Consume(o)
                 /\ Continue([calls |-> Append(calls, Frame("readBracedContent", <<>>)),
                              ret |-> NoRet], Builders)
       ELSE /\ ConsumeUnread(o)
            /\ Continue([calls |-> Append(calls, Frame("readTextNode", <<>>)),
                         ret |-> NoRet], Builders)
  /\ UNCHANGED <<bk, phase, root1, wr, out, rootRes, vres, ws, otherVars>>

readBracedContent ==
  /\ At("readBracedContent")
  /\ \E o \in readRune :
       IF o.err # NilErr THEN Consume(o) /\ Fail(o.err)
       ELSE IF o.rc = rcEOF
            THEN Consume(o)
                 /\ Fail(Err("unexpected end of file while reading a tag or raw node"))
       ELSE IF o.rc = rcTag THEN ConsumeUnread(o) /\ Goto("readTag", <<>>)
       ELSE IF o.rc = rcExclamation THEN Consume(o) /\ Goto("readRawNode", <<>>)
       ELSE IF o.rc = rcHash THEN Consume(o) /\ Goto("readCommentNode", <<>>)
       ELSE Consume(o) /\ Fail(ErrAt("invalid character after opening at index", index + 1))
  /\ UNCHANGED <<bk, phase, root1, wr, out, rootRes, vres, ws, otherVars>>

readRawNode ==
  /\ At("readRawNode")
  /\ \E o \in readRune :
       /\ Consume(o)
       /\ IF o.err # NilErr THEN Fail(o.err)
          ELSE IF o.rc = rcEOF
               THEN Fail(Err("unexpected end of file while reading a raw node"))
          ELSE IF ~Top.second
               THEN IF o.rc = rcExclamation
                    THEN Continue([calls |-> SetTop(calls, Second(Top.fn, Top.buf)),
                                   ret |-> NoRet], Builders)
                    ELSE Loop(Append(Top.buf, o.r))
          ELSE IF o.rc = rcClose THEN ContentAndReturn(Rest, "RawNode", Top.buf)
          ELSE Loop(Top.buf \o <<chExclamation, o.r>>)
  /\ UNCHANGED <<bk, phase, root1, wr, out, rootRes, vres, ws, otherVars>>

readCommentNode ==
  /\ At("readCommentNode")
  /\ \E o \in readRune :
       /\ Consume(o)
       /\ IF o.err # NilErr THEN Fail(o.err)
          ELSE IF o.rc = rcEOF
               THEN Fail(Err("unexpected end of file while reading a comment node"))
          ELSE IF ~Top.second
               THEN IF o.rc = rcHash
                    THEN Continue([calls |-> SetTop(calls, Second(Top.fn, Top.buf)),
                                   ret |-> NoRet], Builders)
                    ELSE Loop(Append(Top.buf, o.r))
          ELSE IF o.rc = rcClose THEN ContentAndReturn(Rest, "CommentNode", Top.buf)
          ELSE Loop(Top.buf \o <<chHash, o.r>>)
  /\ UNCHANGED <<bk, phase, root1, wr, out, rootRes, vres, ws, otherVars>>

\* Unescaped with the bug that the escape rune is kept in the text
UnescapedKept(buf, r) == buf \o <<chEscape, r>>

\* readTextNode, line 254: the rune after the escape goes into the buffer
Unescaped(buf, r) == Append(buf, r)

readTextNode ==
  /\ At("readTextNode")
  /\ \E o \in readRune :
       IF o.err # NilErr THEN Consume(o) /\ Fail(o.err)
       ELSE IF o.rc = rcEOF
            THEN Consume(o) /\ Fail(Err("unexpected end of file while reading a text node"))
       ELSE IF ~Top.second
            THEN IF o.rc = rcOpen \/ o.rc = rcClose
                 THEN ConsumeUnread(o) /\ ContentAndReturn(Rest, "TextNode", Top.buf)
                 ELSE IF o.rc = rcEscape
                      THEN Consume(o)
                           /\ Continue([calls |-> SetTop(calls, Second(Top.fn, Top.buf)),
                                        ret |-> NoRet], Builders)
                      ELSE Consume(o) /\ Loop(Append(Top.buf, o.r))
       ELSE IF o.rc = rcOpen \/ o.rc = rcClose \/ o.rc = rcEscape
            THEN Consume(o) /\ Loop(Unescaped(Top.buf, o.r))
       ELSE Consume(o)
            /\ Fail(ErrAt("invalid character after escaping at index", index + 1))
  /\ UNCHANGED <<bk, phase, root1, wr, out, rootRes, vres, ws, otherVars>>

----------------------------------------------------------------------------
(* The writer: sml/writer.go.                                              *)

\* the number of leading elements of s that are in S
Lead(s, S) ==
  CHOOSE k \in 0..Len(s) : (\A j \in 1..k : s[j] \in S) /\ (k = Len(s) \/ s[k+1] \notin S)

Drop(s, k) == SubSeq(s, k + 1, Len(s))

\* fmt.Fprintf(w, format) without operands, as WriterContext.Writef calls it
\* for a text and for the indentation: after a '%' the flags, the width and
\* the precision are skipped, "%%" gives "%", any other verb has no operand.
RECURSIVE Sprintf(_)
Sprintf(format) ==
  IF format = <<>> THEN <<>>
  ELSE IF format[1] # "%" THEN <<format[1]>> \o Sprintf(Tail(format))
  ELSE LET a == Drop(format, 1 + Lead(Tail(format), {"#", "0", "+", "-", " "}))
           b == Drop(a, Lead(a, Digit))
           c == IF b # <<>> /\ b[1] = "." THEN Drop(b, 1 + Lead(Tail(b), Digit)) ELSE b
       IN  IF c = <<>> THEN <<"%", "!", "(", "N", "O", "V", "E", "R", "B", ")">>
           ELSE IF c[1] = "%" THEN <<"%">> \o Sprintf(Tail(c))
           ELSE <<"%", "!", c[1], "(", "M", "I", "S", "S", "I", "N", "G", ")">>
                \o Sprintf(Tail(c))

\* standardSMLWriter: what each method writes
SML_OpenTag(tag)  == <<"{">> \o Join(tag)
SML_CloseTag(tag) == <<"}">>

RECURSIVE EscapeText(_)
EscapeText(text) ==
  IF text = <<>> THEN <<>>
  ELSE (IF text[1] \in {"^", "{", "}"} THEN <<"^", text[1]>> ELSE <<text[1]>>)
       \o EscapeText(Tail(text))

SML_Text(text)       == Sprintf(EscapeText(text))
SML_Raw(raw)         == <<"{", "!", " ">> \o raw \o <<" ", "!", "}">>
SML_Comment(comment) == <<"{", "#", " ">> \o comment \o <<" ", "#", "}">>

\* xmlWriter: what each method writes; quoted is what %q makes of a string
\* without quotes, backslashes and control characters
Quoted(s) == <<"\"">> \o s \o <<"\"">>

XML_OpenTag(tag) ==
  <<"<">> \o tag[1]
    \o (IF Len(tag) > 1 THEN <<" ", "i", "d", "=">> \o Quoted(tag[2]) ELSE <<>>)
    \o (IF Len(tag) > 2 THEN <<" ", "c", "l", "a", "s", "s", "=">> \o Quoted(tag[3]) ELSE <<>>)
    \o <<">">>
XML_CloseTag(tag) == <<"<", "/">> \o tag[1] \o <<">">>

\* encoding/xml.EscapeText
RECURSIVE XML_Text(_)
XML_Text(text) ==
  IF text = <<>> THEN <<>>
  ELSE (CASE text[1] = "\"" -> <<"&", "#", "3", "4", ";">>
          [] text[1] = "'"  -> <<"&", "#", "3", "9", ";">>
          [] text[1] = "&"  -> <<"&", "a", "m", "p", ";">>
          [] text[1] = "<"  -> <<"&", "l", "t", ";">>
          [] text[1] = ">"  -> <<"&", "g", "t", ";">>
          [] text[1] = "\t" -> <<"&", "#", "x", "9", ";">>
          [] text[1] = "\n" -> <<"&", "#", "x", "A", ";">>
          [] text[1] = "\r" -> <<"&", "#", "x", "D", ";">>
          [] OTHER -> <<text[1]>>)
       \o XML_Text(Tail(text))

\* NewXMLWriter("pre")
rawTag == <<"p", "r", "e">>
XML_Raw(raw) == <<"<">> \o rawTag \o <<">">> \o raw \o <<"<", "/">> \o rawTag \o <<">">>
XML_Comment(comment) == <<"<", "!", "-", "-", " ">> \o comment \o <<" ", "-", "-", ">">>

\* liWriter, the plugin of TestSML2XML
LI_OpenTag(tag)     == <<"<", "l", "i", ">">>
LI_CloseTag(tag)    == <<"<", "/", "l", "i", ">">>
LI_Text(text)       == <<"<", "e", "m", ">", " ">> \o text \o <<" ", "<", "/", "e", "m", ">">>
LI_Raw(raw)         == <<"\n">> \o raw \o <<"\n">>
LI_Comment(comment) == <<"\n">> \o comment \o <<"\n">>

\* the call of method op of the processor p: what it writes
Process(p, op, arg) ==
  CASE p = "sml" /\ op = "OpenTag"  -> SML_OpenTag(arg)
    [] p = "sml" /\ op = "CloseTag" -> SML_CloseTag(arg)
    [] p = "sml" /\ op = "Text"     -> SML_Text(arg)
    [] p = "sml" /\ op = "Raw"      -> SML_Raw(arg)
    [] p = "sml" /\ op = "Comment"  -> SML_Comment(arg)
    [] p = "xml" /\ op = "OpenTag"  -> XML_OpenTag(arg)
    [] p = "xml" /\ op = "CloseTag" -> XML_CloseTag(arg)
    [] p = "xml" /\ op = "Text"     -> XML_Text(arg)
    [] p = "xml" /\ op = "Raw"      -> XML_Raw(arg)
    [] p = "xml" /\ op = "Comment"  -> XML_Comment(arg)
    [] p = "li" /\ op = "OpenTag"   -> LI_OpenTag(arg)
    [] p = "li" /\ op = "CloseTag"  -> LI_CloseTag(arg)
    [] p = "li" /\ op = "Text"      -> LI_Text(arg)
    [] p = "li" /\ op = "Raw"       -> LI_Raw(arg)
    [] p = "li" /\ op = "Comment"   -> LI_Comment(arg)

RECURSIVE Repeat(_, _)
Repeat(s, n) == IF n <= 0 THEN <<>> ELSE s \o Repeat(s, n - 1)

\* mlWriter.writeIndent and writeNewline: what they write
writeIndent(w, isOpen) ==
  IF w.pretty THEN Repeat(Sprintf(w.indentStr), w.indent)
  ELSE IF isOpen THEN <<" ">> ELSE <<>>

writeNewline(w) == IF w.pretty THEN <<"\n">> ELSE <<>>

activatePlugin(w, key) ==
  IF key \in DOMAIN w.plugins THEN [w EXCEPT !.stack = Append(@, w.plugins[key])] ELSE w

deactivatePlugin(w) == [w EXCEPT !.stack = SubSeq(@, 1, Len(@) - 1)]

activePlugin(w) == w.stack[Len(w.stack)]

\* Node.ProcessWith: a tag node calls OpenTag, processes its children in
\* order and calls CloseTag; the other nodes call their one method.
Visit(n)  == [op |-> "visit", node |-> n]
Close(n)  == [op |-> "close", node |-> n]
ProcessWith(n, agenda) ==
  IF n.kind = "tag"
  THEN [i \in DOMAIN n.children |-> Visit(n.children[i])] \o <<Close(n)>> \o agenda
  ELSE agenda

\* the record of a call: method op went to processor p
Sent(op, p) == [op |-> op, proc |-> p]

Visiting(kind) ==
  /\ phase = "write"
  /\ wr.agenda # <<>>
  /\ IF kind = "close" THEN wr.agenda[1].op = "close"
     ELSE wr.agenda[1].op = "visit" /\ wr.agenda[1].node.kind = kind

\* The methods of mlWriter on the writer w: the writer after the call (w),
\* what the call writes through w.context before (pre) and after (post) the
\* call of the active plugin, the plugin (proc), and what the plugin writes
\* through its own context (body).
W_OpenTag(w) ==
  LET n == w.agenda[1].node
      a == activatePlugin(w, n.tag[1])
      p == activePlugin(a)
  IN  [w |-> [a EXCEPT !.indent = @ + 1, !.agenda = ProcessWith(n, Tail(@)),
                       !.sent = Append(@, Sent("OpenTag", p))],
       pre |-> writeIndent(a, TRUE), proc |-> p, body |-> Process(p, "OpenTag", n.tag),
       post |-> writeNewline(a)]

\* CloseTag with the bug that the root processor is popped as well
W_CloseTagAll(w) ==
  LET n == w.agenda[1].node
      i == [w EXCEPT !.indent = @ - 1]
      p == activePlugin(i)
      d == IF Len(i.stack) > 0 THEN deactivatePlugin(i) ELSE i
  IN  [w |-> [d EXCEPT !.agenda = Tail(@), !.sent = Append(@, Sent("CloseTag", p))],
       pre |-> writeIndent(i, FALSE), proc |-> p, body |-> Process(p, "CloseTag", n.tag),
       post |-> writeNewline(i)]

\* CloseTag with the bug that w.indent is decremented after the writing
W_CloseTagLate(w) ==
  LET n == w.agenda[1].node
      p == activePlugin(w)
      d == IF Len(w.stack) > 1 THEN deactivatePlugin(w) ELSE w
  IN  [w |-> [d EXCEPT !.indent = @ - 1, !.agenda = Tail(@),
                       !.sent = Append(@, Sent("CloseTag", p))],
       pre |-> writeIndent(w, FALSE), proc |-> p, body |-> Process(p, "CloseTag", n.tag),
       post |-> writeNewline(w)]

W_CloseTag(w) ==
  LET n == w.agenda[1].node
      i == [w EXCEPT !.indent = @ - 1]
      p == activePlugin(i)
      d == IF Len(i.stack) > 1 THEN deactivatePlugin(i) ELSE i
  IN  [w |-> [d EXCEPT !.agenda = Tail(@), !.sent = Append(@, Sent("CloseTag", p))],
       pre |-> writeIndent(i, FALSE), proc |-> p, body |-> Process(p, "CloseTag", n.tag),
       post |-> writeNewline(i)]

\* Text, Raw and Comment: op is the method
W_Content(w, op) ==
  LET p == activePlugin(w)
  IN  [w |-> [w EXCEPT !.agenda = Tail(@), !.sent = Append(@, Sent(op, p))],
       pre |-> writeIndent(w, TRUE), proc |-> p,
       body |-> Process(p, op, w.agenda[1].node.text), post |-> writeNewline(w)]

\* the writer and the one sink of WriteSML after the call with result r
Written(r) ==
  /\ wr' = r.w
  /\ out' = out \o r.pre \o r.body \o r.post

OpenTag ==
  /\ Visiting("tag")
  /\ Written(W_OpenTag(wr))
  /\ UNCHANGED <<readerVars, builderVars, phase, root1, rootRes, vres, ws, otherVars>>

CloseTag ==
  /\ Visiting("close")
  /\ Written(W_CloseTag(wr))
  /\ UNCHANGED <<readerVars, builderVars, phase, root1, rootRes, vres, ws, otherVars>>

Text ==
  /\ Visiting("text")
  /\ Written(W_Content(wr, "Text"))
  /\ UNCHANGED <<readerVars, builderVars, phase, root1, rootRes, vres, ws, otherVars>>

Raw ==
  /\ Visiting("raw")
  /\ Written(W_Content(wr, "Raw"))
  /\ UNCHANGED <<readerVars, builderVars, phase, root1, rootRes, vres, ws, otherVars>>

Comment ==
  /\ Visiting("comment")
  /\ Written(W_Content(wr, "Comment"))
  /\ UNCHANGED <<readerVars, builderVars, phase, root1, rootRes, vres, ws, otherVars>>

----------------------------------------------------------------------------
(* ReadSML(reader, builder): the state after lines 50-54.                  *)

NoNode   == TagNode(<<>>)
IdleWriter == [pretty |-> FALSE, indentStr |-> <<>>, plugins |-> <<>>, stack |-> <<>>,
               indent |-> 0, agenda |-> <<>>, sent |-> <<>>]
IndentStrs == {<<" ", " ">>}

\* The contexts and the processor objects of a program that writes twice: no
\* context is created (no plugins), no processor has a context, no WriteSML
\* has begun.  sink[c] is the io.Writer of context c, emitted[c] all that the
\* WriteSML call on context c has written.
Ctxs  == {"A", "B"}
Procs == {"sml", "xml", "li"}
NoContexts ==
  [plugins |-> [c \in Ctxs |-> <<>>], pctx |-> [p \in Procs |-> "nil"],
   started |-> [c \in Ctxs |-> FALSE], writer |-> [c \in Ctxs |-> IdleWriter],
   sink |-> [c \in Ctxs |-> <<>>], emitted |-> [c \in Ctxs |-> <<>>]]

ReadSML(input, isOpen, kind) ==
  /\ src' = input
  /\ open' = isOpen
  /\ pos' = 0
  /\ index' = -1
  /\ lastRune' = FALSE
  /\ calls' = <<Frame("readPreliminary", <<>>)>>
  /\ ret' = NoRet
  /\ bk' = kind
  /\ nb' = NewNodeBuilder
  /\ tb' = NewKeyStringValueTreeBuilder
  /\ events' = <<>>

\* NewWriterContext(NewStandardSMLWriter(), buf, pretty, indentStr) and
\* WriteSML(root, ctx) for the root of a document that was read
WriteSML ==
  /\ phase = "read"
  /\ bk = "node"
  /\ ret = NilErr
  /\ Root(nb).ok
  /\ \E pretty \in BOOLEAN, ind \in IndentStrs :
       wr' = [pretty |-> pretty, indentStr |-> ind, plugins |-> (<<>> :> "sml"),
              stack |-> <<"sml">>, indent |-> 0, agenda |-> <<Visit(Root(nb).node)>>,
              sent |-> <<>>]
  /\ root1' = Root(nb).node
  /\ out' = <<>>
  /\ phase' = "write"
  /\ UNCHANGED <<readerVars, builderVars, rootRes, vres, ws, otherVars>>

\* the written document is read again
ReadAgain ==
  /\ phase = "write"
  /\ wr.agenda = <<>>
  /\ ReadSML(out, FALSE, "node")
  /\ phase' = "reread"
  /\ UNCHANGED <<root1, wr, out, rootRes, vres, ws, otherVars>>

Init ==
  /\ src = <<>>
  /\ open = TRUE
  /\ pos = 0
  /\ index = -1
  /\ lastRune = FALSE
  /\ calls = <<Frame("readPreliminary", <<>>)>>
  /\ ret = NoRet
  /\ bk \in {"node", "kv"}
  /\ nb = NewNodeBuilder
  /\ tb = NewKeyStringValueTreeBuilder
  /\ events = <<>>
  /\ phase = "read"
  /\ root1 = NoNode
  /\ wr = IdleWriter
  /\ out = <<>>
  /\ rootRes = <<>>
  /\ ws = NoContexts
  /\ OthersIdle
  /\ vres = [tag |-> <<>>, res |-> ValidateTag(<<>>)]

Next ==
  \/ readPreliminary
  \/ readTag
  \/ readTagChildren
  \/ readBracedContent
  \/ readRawNode
  \/ readCommentNode
  \/ readTextNode
  \/ WriteSML
  \/ OpenTag
  \/ CloseTag
  \/ Text
  \/ Raw
  \/ Comment
  \/ ReadAgain

Spec == Init /\ [][Next]_vars

----------------------------------------------------------------------------
(* A client that drives a builder directly, as createNodeStructure does.   *)

ApiTags  == {<<"a">>, <<"b", ":", "c">>, <<"-">>}
ApiTexts == {<<"x">>}

InitApi ==
  /\ src = <<>>
  /\ open = FALSE
  /\ pos = 0
  /\ index = -1
  /\ lastRune = FALSE
  /\ calls = <<>>
  /\ ret = NoRet
  /\ bk \in {"node", "kv"}
  /\ nb = NewNodeBuilder
  /\ tb = NewKeyStringValueTreeBuilder
  /\ events = <<>>
  /\ phase = "api"
  /\ root1 = NoNode
  /\ wr = IdleWriter
  /\ out = <<>>
  /\ rootRes = <<>>
  /\ ws = NoContexts
  /\ OthersIdle
  /\ vres = [tag |-> <<>>, res |-> ValidateTag(<<>>)]

CanCall == phase = "api" /\ Len(events) + Len(rootRes) < MaxCalls

\* the client calls method op with argument arg; a panic ends the program
Call(op, arg) ==
  LET b == BuilderCall(Builders, Ev(op, arg))
  IN  /\ nb' = b.nb
      /\ tb' = b.tb
      /\ events' = b.events
      /\ phase' = IF b.err = ErrPanic THEN "crashed" ELSE phase

CallBeginTagNode ==
  /\ CanCall
  /\ \E tag \in ApiTags : Call("BeginTagNode", tag)
  /\ UNCHANGED <<readerVars, bk, root1, wr, out, rootRes, vres, ws, otherVars>>

CallEndTagNode ==
  /\ CanCall
  /\ Call("EndTagNode", <<>>)
  /\ UNCHANGED <<readerVars, bk, root1, wr, out, rootRes, vres, ws, otherVars>>

CallTextNode ==
  /\ CanCall
  /\ \E text \in ApiTexts : Call("TextNode", text)
  /\ UNCHANGED <<readerVars, bk, root1, wr, out, rootRes, vres, ws, otherVars>>

CallRawNode ==
  /\ CanCall
  /\ \E raw \in ApiTexts : Call("RawNode", raw)
  /\ UNCHANGED <<readerVars, bk, root1, wr, out, rootRes, vres, ws, otherVars>>

CallCommentNode ==
  /\ CanCall
  /\ \E comment \in ApiTexts : Call("CommentNode", comment)
  /\ UNCHANGED <<readerVars, bk, root1, wr, out, rootRes, vres, ws, otherVars>>

\* NodeBuilder.Root(): the result is kept with the number of calls before it
CallRoot ==
  /\ CanCall
  /\ bk = "node"
  /\ rootRes' = Append(rootRes, [after |-> Len(events), res |-> Root(nb)])
  /\ UNCHANGED <<readerVars, builderVars, phase, root1, wr, out, vres, ws, otherVars>>

NextApi ==
  \/ CallBeginTagNode
  \/ CallEndTagNode
  \/ CallTextNode
  \/ CallRawNode
  \/ CallCommentNode
  \/ CallRoot

SpecApi == InitApi /\ [][NextApi]_vars

----------------------------------------------------------------------------
(* ValidateTag applied to the raw tags of at most MaxTagLen runes.          *)

TagAlphabet == {"a", "B", "1", "-", ":", "%"}
RawTags == UNION {[1..n -> TagAlphabet] : n \in 0..MaxTagLen}

InitValidate ==
  /\ src = <<>>
  /\ open = FALSE
  /\ pos = 0
  /\ index = -1
  /\ lastRune = FALSE
  /\ calls = <<>>
  /\ ret = NoRet
  /\ bk = "node"
  /\ nb = NewNodeBuilder
  /\ tb = NewKeyStringValueTreeBuilder
  /\ events = <<>>
  /\ phase = "validate"
  /\ root1 = NoNode
  /\ wr = IdleWriter
  /\ out = <<>>
  /\ rootRes = <<>>
  /\ ws = NoContexts
  /\ OthersIdle
  /\ \E raw \in RawTags : vres = [tag |-> raw, res |-> [tag |-> <<>>, err |-> NoRet]]

Validate ==
  /\ phase = "validate"
  /\ vres.res.err = NoRet
  /\ vres' = [vres EXCEPT !.res = ValidateTag(vres.tag)]
  /\ UNCHANGED <<readerVars, builderVars, phase, root1, wr, out, rootRes, ws, otherVars>>

NextValidate == Validate

SpecValidate == InitValidate /\ [][NextValidate]_vars

----------------------------------------------------------------------------
(* ReadSML on a document that is given as a whole, strings.NewReader(doc): *)
(* the documents are a tag a around a content of at most MaxContent runes, *)
(* around a raw node or a comment of that content, the documents of the    *)
(* scenarios, and every beginning of one of these.                         *)

MaxContent == 3

DocAlphabet == {"{", "}", "^", "!", "#", "a", " "}
Contents == UNION {[1..n -> DocAlphabet] : n \in 0..MaxContent}

PlainDoc(t)   == <<"{", "a", " ">> \o t \o <<"}">>
RawDoc(c)     == <<"{", "a", " ", "{", "!">> \o c \o <<"!", "}", "}">>
CommentDoc(c) == <<"{", "a", " ", "{", "#">> \o c \o <<"#", "}", "}">>

\* {root
DocRoot  == <<"{", "r", "o", "o", "t">>
\* {root Text A}
DocTextA == DocRoot \o <<" ", "T", "e", "x", "t", " ", "A", "}">>
\* {root ^{hello^}}
DocHello == DocRoot \o <<" ", "^", "{", "h", "e", "l", "l", "o", "^", "}", "}">>
\* {root {! raw <code> !}}
DocRawCode == DocRoot \o <<" ", "{", "!", " ", "r", "a", "w", " ", "<", "c", "o", "d",
                           "e", ">", " ", "!", "}", "}">>
\* Before {a}
DocBefore == <<"B", "e", "f", "o", "r", "e", " ", "{", "a", "}">>

\* a tag a with a text, an empty tag and a second text; a tag a with two
\* tags of the same name and a text in each
Values == {<<>>, <<" ">>, <<"a">>}
SplitDoc(u, v)   == <<"{", "a", " ">> \o u \o <<"{", "a", "}">> \o v \o <<"}">>
SiblingDoc(u, v) ==
  <<"{", "a", " ", "{", "a", " ">> \o u \o <<"}", "{", "a", " ">> \o v \o <<"}", "}">>

WholeDocs ==
  {PlainDoc(t) : t \in Contents} \cup {RawDoc(c) : c \in Contents}
    \cup {CommentDoc(c) : c \in Contents}
    \cup {SplitDoc(u, v) : u, v \in Values} \cup {SiblingDoc(u, v) : u, v \in Values}
    \cup {DocTextA, DocHello, DocRawCode, DocBefore}

Docs == UNION {{SubSeq(d, 1, k) : k \in 0..Len(d)} : d \in WholeDocs}

InitDoc ==
  /\ src \in Docs
  /\ open = FALSE
  /\ pos = 0
  /\ index = -1
  /\ lastRune = FALSE
  /\ calls = <<Frame("readPreliminary", <<>>)>>
  /\ ret = NoRet
  /\ bk \in {"node", "kv"}
  /\ nb = NewNodeBuilder
  /\ tb = NewKeyStringValueTreeBuilder
  /\ events = <<>>
  /\ phase = "read"
  /\ root1 = NoNode
  /\ wr = IdleWriter
  /\ out = <<>>
  /\ rootRes = <<>>
  /\ ws = NoContexts
  /\ OthersIdle
  /\ vres = [tag |-> <<>>, res |-> ValidateTag(<<>>)]

NextDoc ==
  \/ readPreliminary
  \/ readTag
  \/ readTagChildren
  \/ readBracedContent
  \/ readRawNode
  \/ readCommentNode
  \/ readTextNode

SpecDoc == InitDoc /\ [][NextDoc]_vars

----------------------------------------------------------------------------
(* WriteSML with plugins, as in TestSML2XML: a root processor and, in some *)
(* contexts, the liWriter registered for the tag li.  The trees are what a *)
(* NodeBuilder builds: a root tag with at most MaxKids children, each a    *)
(* text, a raw text, a comment or a tag with a short list of children.     *)

MaxKids == 2

PlugTags == {<< <<"a">> >>, << <<"l", "i">>, <<"1">> >>}
Leaves == {TextNodeOf(<<"x">>), RawNodeOf(<<"x">>), CommentOf(<<"x">>)}
TagWith(t, kids) == [TagNode(t) EXCEPT !.children = kids]
EmptyTags == {TagWith(t, <<>>) : t \in PlugTags}
InnerKids ==
  {<<>>} \cup {<<k>> : k \in Leaves \cup EmptyTags}
         \cup {<<e, TextNodeOf(<<"x">>)>> : e \in EmptyTags}
Kids == Leaves \cup {TagWith(t, k) : t \in PlugTags, k \in InnerKids}
Trees == {TagWith(t, k) : t \in PlugTags, k \in UNION {[1..n -> Kids] : n \in 0..MaxKids}}

\* ctx.plugins after NewWriterContext(wp, ...) and the calls of ctx.Register
PluginSets ==
  {(<<>> :> r) : r \in {"sml", "xml"}}
    \cup {(<<>> :> r) @@ (<<"l", "i">> :> "li") : r \in {"sml", "xml"}}

InitPlug ==
  /\ src = <<>>
  /\ open = FALSE
  /\ pos = 0
  /\ index = -1
  /\ lastRune = FALSE
  /\ calls = <<>>
  /\ ret = NoRet
  /\ bk = "node"
  /\ nb = NewNodeBuilder
  /\ tb = NewKeyStringValueTreeBuilder
  /\ events = <<>>
  /\ phase = "write"
  /\ root1 \in Trees
  /\ \E pretty \in BOOLEAN, ind \in IndentStrs, plugins \in PluginSets :
       wr = [pretty |-> pretty, indentStr |-> ind, plugins |-> plugins,
             stack |-> <<plugins[<<>>]>>, indent |-> 0, agenda |-> <<Visit(root1)>>,
             sent |-> <<>>]
  /\ out = <<>>
  /\ rootRes = <<>>
  /\ ws = NoContexts
  /\ OthersIdle
  /\ vres = [tag |-> <<>>, res |-> ValidateTag(<<>>)]

NextPlug ==
  \/ OpenTag
  \/ CloseTag
  \/ Text
  \/ Raw
  \/ Comment

SpecPlug == InitPlug /\ [][NextPlug]_vars

----------------------------------------------------------------------------
(* TestPositiveNodeReading: a document with text before and after it is    *)
(* read, then the document alone is read with a builder of the same kind.  *)

Pres  == {<<>>, <<"}">>, <<"^">>, <<"!">>, <<"#">>, <<"a", " ">>, <<"}", "^", "!", "#">>}
Posts == {<<>>, <<"}">>, <<"^">>, <<"a", "!">>, <<"{", "a", "}">>, <<" ", "{", "!">>}
Cores ==
  {PlainDoc(t) : t \in Contents} \cup {RawDoc(c) : c \in Values}
    \cup {CommentDoc(c) : c \in Values}
    \cup {SplitDoc(u, v) : u, v \in Values} \cup {SiblingDoc(u, v) : u, v \in Values}
    \cup {DocTextA, DocHello}

InitFramed ==
  /\ framed \in [pre : Pres, core : Cores, post : Posts, all : {<<>>}]
  /\ etc = NoEtc
  /\ MoreIdle
  /\ src = framed.pre \o framed.core \o framed.post
  /\ open = FALSE
  /\ pos = 0
  /\ index = -1
  /\ lastRune = FALSE
  /\ calls = <<Frame("readPreliminary", <<>>)>>
  /\ ret = NoRet
  /\ bk \in {"node", "kv"}
  /\ nb = NewNodeBuilder
  /\ tb = NewKeyStringValueTreeBuilder
  /\ events = <<>>
  /\ phase = "read"
  /\ root1 = NoNode
  /\ wr = IdleWriter
  /\ out = <<>>
  /\ rootRes = <<>>
  /\ ws = NoContexts
  /\ vres = [tag |-> <<>>, res |-> ValidateTag(<<>>)]

\* ReadSML returned for the whole text: what it returned, the builder and the
\* number of runes taken are kept, and ReadSML is called for the document alone
ReadCore ==
  /\ phase = "read"
  /\ ret # NoRet
  /\ framed.all = <<>>
  /\ framed' = [framed EXCEPT !.all = <<[ret |-> ret, events |-> events, nb |-> nb,
                                         tb |-> tb, pos |-> pos]>>]
  /\ ReadSML(framed.core, FALSE, bk)
  /\ phase' = "reread"
  /\ UNCHANGED <<root1, wr, out, rootRes, vres, ws, libVars>>

NextFramed ==
  \/ readPreliminary
  \/ readTag
  \/ readTagChildren
  \/ readBracedContent
  \/ readRawNode
  \/ readCommentNode
  \/ readTextNode
  \/ ReadCore

SpecFramed == InitFramed /\ [][NextFramed]_vars

----------------------------------------------------------------------------
(* Package etc (etc/etc.go): a configuration is the key/value tree that    *)
(* ReadSML builds with a KeyStringValueTreeBuilder.  The tree is of the    *)
(* library collections: values maps the paths to their values, keys lists  *)
(* the paths in the order of their creation, which is the order of the     *)
(* children in DoAllDeep.                                                  *)

etcRoot == << <<"e", "t", "c">> >>

\* the paths that the builder calls evs[k..] create, in the order of creation
RECURSIVE CreatedFrom(_, _, _, _)
CreatedFrom(evs, k, stack, acc) ==
  IF k > Len(evs) \/ evs[k].err # NilErr THEN acc
  ELSE IF evs[k].op = "BeginTagNode"
       THEN LET st == Append(stack, evs[k].arg)
            IN  CreatedFrom(evs, k + 1, st,
                            IF \E i \in DOMAIN acc : acc[i] = st THEN acc ELSE Append(acc, st))
  ELSE IF evs[k].op = "EndTagNode"
       THEN CreatedFrom(evs, k + 1, SubSeq(stack, 1, Len(stack) - 1), acc)
  ELSE CreatedFrom(evs, k + 1, stack, acc)

ErrFormat == Err("invalid source format")
NoCfg(e)  == [err |-> e, values |-> <<>>, keys |-> <<>>]

\* collections.KeyStringValueTree.DoAllDeep: the paths depth first, every
\* node before its children
RECURSIVE DeepFrom(_, _), DeepAll(_, _)
DeepFrom(keys, p) ==
  <<p>> \o DeepAll(keys, SelectSeq(keys, LAMBDA c : /\ Len(c) = Len(p) + 1
                                                    /\ SubSeq(c, 1, Len(p)) = p))
DeepAll(keys, cs) ==
  IF cs = <<>> THEN <<>> ELSE DeepFrom(keys, cs[1]) \o DeepAll(keys, Tail(cs))

DoAllDeep(cfg) == IF cfg.keys = <<>> THEN <<>> ELSE DeepFrom(cfg.keys, cfg.keys[1])

\* Etc.Write, lines 253-278: the builder calls for the paths list[k..] when
\* the last tag opened is at depth
RECURSIVE WriteCalls(_, _, _, _)
WriteCalls(cfg, list, k, depth) ==
  IF k > Len(list) THEN [i \in 1..depth |-> Ev("EndTagNode", <<>>)]
  ELSE LET ks      == list[k]
           doDepth == Len(ks)
           ends    == [i \in 1..(IF depth > doDepth THEN depth - doDepth ELSE 0) |->
                         Ev("EndTagNode", <<>>)]
           begin   == <<Ev("BeginTagNode", ks[doDepth]), Ev("TextNode", cfg.values[ks])>>
       IN  ends \o (IF doDepth > depth THEN begin ELSE <<Ev("EndTagNode", <<>>)>> \o begin)
             \o WriteCalls(cfg, list, k + 1, doDepth)

\* the NodeBuilder after the calls cs[k..], whose errors Write does not look at
RECURSIVE Built(_, _, _)
Built(b, cs, k) == IF k > Len(cs) THEN b ELSE Built(NB_Call(b, cs[k]).nb, cs, k + 1)

\* the indentation Write passes to NewWriterContext
etcIndent == <<" ", " ", " ">>

\* stringex.SplitMap(path, "/", ...) of makeFullPath: the parts between the
\* slashes in lower case, without the empty ones
RECURSIVE PathParts(_, _, _)
PathParts(path, k, part) ==
  IF k > Len(path) THEN (IF part = <<>> THEN <<>> ELSE <<ToLower(part)>>)
  ELSE IF path[k] = "/"
       THEN (IF part = <<>> THEN <<>> ELSE <<ToLower(part)>>) \o PathParts(path, k + 1, <<>>)
  ELSE PathParts(path, k + 1, Append(part, path[k]))

makeFullPath(path) == etcRoot \o PathParts(path, 1, <<>>)

\* regexp `\[.+(||.+)\]`: the group matches the empty string, so the match
\* is the first '[' that has a ']' two or more runes later on its line, up to
\* the last such ']'.  None is <<0, 0>>.
ClosersOf(v, i) ==
  {j \in (i + 2)..Len(v) : v[j] = "]" /\ \A k \in (i + 1)..(j - 1) : v[k] # "\n"}
FindString(v) ==
  LET starts == {i \in DOMAIN v : v[i] = "[" /\ ClosersOf(v, i) # {}}
  IN  IF starts = {} THEN <<0, 0>>
      ELSE LET i == CHOOSE a \in starts : \A b \in starts : a <= b
               j == CHOOSE a \in ClosersOf(v, i) : \A b \in ClosersOf(v, i) : a >= b
           IN  <<i, j>>

\* a template as the documentation of postProcess reads it: a '[' up to the
\* next ']'
FindStringShortest(v) ==
  LET starts == {i \in DOMAIN v : v[i] = "[" /\ ClosersOf(v, i) # {}}
  IN  IF starts = {} THEN <<0, 0>>
      ELSE LET i == CHOOSE a \in starts : \A b \in starts : a <= b
               j == CHOOSE a \in ClosersOf(v, i) : \A b \in ClosersOf(v, i) : a <= b
           IN  <<i, j>>

\* strings.SplitN(s, "||", 2)
SplitN2(t) ==
  LET bars == {k \in 1..(Len(t) - 1) : t[k] = "|" /\ t[k + 1] = "|"}
  IN  IF bars = {} THEN <<t>>
      ELSE LET k == CHOOSE a \in bars : \A b \in bars : a <= b
           IN  <<SubSeq(t, 1, k - 1), SubSeq(t, k + 2, Len(t))>>

\* strings.Replace(v, old, new, -1) for a non-empty old
RECURSIVE Replace(_, _, _)
Replace(v, old, new) ==
  IF Len(v) < Len(old) THEN v
  ELSE IF SubSeq(v, 1, Len(old)) = old
       THEN new \o Replace(SubSeq(v, Len(old) + 1, Len(v)), old, new)
  ELSE <<v[1]>> \o Replace(Tail(v), old, new)

\* ValueAsString(path, dv): the value at the path, dv when there is none
ValueAsString(cfg, path, dv) ==
  IF makeFullPath(path) \in DOMAIN cfg.values THEN cfg.values[makeFullPath(path)] ELSE dv

\* postProcess, lines 319-341: the new value of a value v with a match
Substituted(cfg, env, v) ==
  LET m     == FindString(v)
      found == SubSeq(v, m[1], m[2])
      sd    == SplitN2(SubSeq(found, 2, Len(found) - 1))
      dv    == IF Len(sd) > 1 THEN sd[2] ELSE found
      sub   == IF sd[1] # <<>> /\ sd[1][1] = "$"
               THEN (IF Tail(sd[1]) \in DOMAIN env THEN env[Tail(sd[1])] ELSE dv)
               ELSE ValueAsString(cfg, sd[1], dv)
  IN  Replace(v, found, sub)

\* postProcess: the values with a match are changed one after the other, in
\* the order of the tree
RECURSIVE postProcess(_, _, _, _)
postProcess(cfg, env, list, k) ==
  IF k > Len(list) THEN cfg
  ELSE IF FindString(cfg.values[list[k]]) = <<0, 0>> THEN postProcess(cfg, env, list, k + 1)
  ELSE postProcess([cfg EXCEPT !.values[list[k]] = Substituted(cfg, env, @)],
                   env, list, k + 1)

\* Read, lines 84-101, when ReadSML has returned
ReadResult ==
  IF ret # NilErr \/ ~Tree(tb).ok \/ etcRoot \notin DOMAIN tb.tree
  THEN NoCfg(ErrFormat)
  ELSE LET cfg == [err |-> NilErr, values |-> tb.tree,
                   keys |-> CreatedFrom(events, 1, <<>>, <<>>)]
       IN  postProcess(cfg, etc.env, DoAllDeep(cfg), 1)

EtcVals == {<<>>, <<"1">>, <<"x", " ", "y">>}
EtcFlat(v, x, y) ==
  <<"{", "e", "t", "c", " ">> \o v \o <<"{", "a", " ">> \o x \o <<"}", "{", "b", " ">>
    \o y \o <<"}", "}">>
EtcDeep(v, x, y) ==
  <<"{", "e", "t", "c", " ">> \o v \o <<"{", "a", " ">> \o x \o <<"{", "b", " ">>
    \o y \o <<"}", "}", "}">>
\* {something {gnagnagna}}
EtcSomething == <<"{", "s", " ", "{", "g", "}", "}">>
\* {etc {# c #}{a x}}
EtcWithComment ==
  <<"{", "e", "t", "c", " ", "{", "#", " ", "c", " ", "#", "}", "{", "a", " ", "x", "}", "}">>
\* {etc {a {! x !}}}
EtcWithRaw ==
  <<"{", "e", "t", "c", " ", "{", "a", " ", "{", "!", " ", "x", " ", "!", "}", "}", "}">>
EtcDocs ==
  {EtcFlat(v, x, y) : v, x, y \in EtcVals} \cup {EtcDeep(v, x, y) : v, x, y \in EtcVals}
    \cup {EtcSomething, SiblingDoc(<<"a">>, <<"a">>), EtcWithComment, EtcWithRaw}

InitEtc ==
  /\ src \in EtcDocs
  /\ open = FALSE
  /\ pos = 0
  /\ index = -1
  /\ lastRune = FALSE
  /\ calls = <<Frame("readPreliminary", <<>>)>>
  /\ ret = NoRet
  /\ bk = "kv"
  /\ nb = NewNodeBuilder
  /\ tb = NewKeyStringValueTreeBuilder
  /\ events = <<>>
  /\ phase = "read"
  /\ root1 = NoNode
  /\ wr = IdleWriter
  /\ out = <<>>
  /\ rootRes = <<>>
  /\ ws = NoContexts
  /\ vres = [tag |-> <<>>, res |-> ValidateTag(<<>>)]
  /\ framed = NotFramed
  /\ etc = NoEtc
  /\ MoreIdle

\* Read after ReadSML has returned: the configuration or the error
EtcRead ==
  /\ phase = "read"
  /\ ret # NoRet
  /\ etc' = [etc EXCEPT !.cfgs = Append(@, ReadResult)]
  /\ phase' = "etc"
  /\ UNCHANGED <<readerVars, builderVars, root1, wr, out, rootRes, vres, ws, framed, moreVars>>

\* cfg.Write(target, prettyPrint) up to the call of WriteSML
EtcWrite ==
  /\ phase = "etc"
  /\ Len(etc.cfgs) = 1
  /\ etc.cfgs[1].err = NilErr
  /\ \E pretty \in BOOLEAN :
       LET cfg == etc.cfgs[1]
           r   == Root(Built(NewNodeBuilder, WriteCalls(cfg, DoAllDeep(cfg), 1, 0), 1))
       IN  IF r.ok
           THEN /\ wr' = [pretty |-> pretty, indentStr |-> etcIndent,
                          plugins |-> (<<>> :> "sml"), stack |-> <<"sml">>, indent |-> 0,
                          agenda |-> <<Visit(r.node)>>, sent |-> <<>>]
                /\ etc' = [etc EXCEPT !.pretty = pretty]
                /\ phase' = "write"
           ELSE /\ etc' = [etc EXCEPT !.pretty = pretty, !.werr = r.err]
                /\ phase' = "failed"
                /\ UNCHANGED wr
  /\ out' = <<>>
  /\ UNCHANGED <<readerVars, builderVars, root1, rootRes, vres, ws, framed, moreVars>>

\* ReadString of what Write has written
EtcReadString ==
  /\ phase = "write"
  /\ wr.agenda = <<>>
  /\ ReadSML(out, FALSE, "kv")
  /\ phase' = "read"
  /\ UNCHANGED <<root1, wr, out, rootRes, vres, ws, otherVars>>

NextEtc ==
  \/ readPreliminary
  \/ readTag
  \/ readTagChildren
  \/ readBracedContent
  \/ readRawNode
  \/ readCommentNode
  \/ readTextNode
  \/ EtcRead
  \/ EtcWrite
  \/ OpenTag
  \/ CloseTag
  \/ Text
  \/ EtcReadString

SpecEtc == InitEtc /\ [][NextEtc]_vars

----------------------------------------------------------------------------
(* TestTemplates: configurations {etc {a 1}{t ...}} whose value of t holds *)
(* templates, read with the environment variable A set or not set.         *)

EnvA == <<"A">>
Envs == {<<>>, (EnvA :> <<"7">>)}

TplSources  == {<<"a">>, <<"c">>, <<"$", "A">>, <<"$">>, <<>>}
TplDefaults == {<<>>, <<"|", "|">>, <<"|", "|", "9">>}
TplAround   == {<<>>, <<"x">>}
Template(s, d) == <<"[">> \o s \o d \o <<"]">>
TplValues ==
  {l \o Template(s, d) \o r : l, r \in TplAround, s \in TplSources, d \in TplDefaults}
    \cup {Template(<<"a">>, <<>>) \o m \o Template(s, <<>>) :
            m \in {<<>>, <<"-">>}, s \in {<<"a">>, <<"c">>}}
\* a template in a raw block, and one behind a comment
TplBlocks ==
  {<<"{", "!", " ", "[", "a", "]", " ", "!", "}">>,
   <<"{", "#", " ", "c", " ", "#", "}", "[", "a", "]">>}
TplDoc(t) ==
  <<"{", "e", "t", "c", " ", "{", "a", " ", "1", "}", "{", "t", " ">> \o t \o <<"}", "}">>

InitTemplates ==
  /\ src \in {TplDoc(t) : t \in TplValues \cup TplBlocks}
  /\ open = FALSE
  /\ pos = 0
  /\ index = -1
  /\ lastRune = FALSE
  /\ calls = <<Frame("readPreliminary", <<>>)>>
  /\ ret = NoRet
  /\ bk = "kv"
  /\ nb = NewNodeBuilder
  /\ tb = NewKeyStringValueTreeBuilder
  /\ events = <<>>
  /\ phase = "read"
  /\ root1 = NoNode
  /\ wr = IdleWriter
  /\ out = <<>>
  /\ rootRes = <<>>
  /\ ws = NoContexts
  /\ vres = [tag |-> <<>>, res |-> ValidateTag(<<>>)]
  /\ framed = NotFramed
  /\ \E env \in Envs : etc = [NoEtc EXCEPT !.env = env]
  /\ MoreIdle

NextTemplates ==
  \/ readPreliminary
  \/ readTag
  \/ readTagChildren
  \/ readBracedContent
  \/ readRawNode
  \/ readCommentNode
  \/ readTextNode
  \/ EtcRead

SpecTemplates == InitTemplates /\ [][NextTemplates]_vars

----------------------------------------------------------------------------
(* Split and Apply (etc/etc.go).  An Etc holds a pointer to its tree:      *)
(* etc.heap are the tree objects allocated so far, etc.made the Etc values *)
(* made so far, each with the call that made it and the index of its tree. *)
(* Copy and CopyAt of the library collections allocate a new tree.         *)

MaxMade == 3   \* configurations a program makes

HasPath(tree, path) == makeFullPath(path) \in DOMAIN tree.values

\* the beginnings of path that are no path of keys yet, shortest first
NewKeys(keys, path) ==
  SelectSeq([k \in 1..Len(path) |-> SubSeq(path, 1, k)],
            LAMBDA q : \A i \in DOMAIN keys : keys[i] # q)

\* tree.Create(fullPath...).SetValue(value)
SetValueAt(tree, path, value) ==
  [values |-> [Create(tree.values, path) EXCEPT ![path] = value],
   keys   |-> tree.keys \o NewKeys(tree.keys, path)]

\* Apply, lines 236-242: the tree after the values appl[k..], appl in the
\* order in which the map is ranged over
RECURSIVE ApplyAll(_, _, _)
ApplyAll(tree, appl, k) ==
  IF k > Len(appl) THEN tree
  ELSE ApplyAll(SetValueAt(tree, makeFullPath(appl[k].path), appl[k].value), appl, k + 1)

\* tree.CopyAt(fullPath...) and SetKey("etc") at its root, lines 197-201: the
\* paths below fullPath, with etc in the place of fullPath
Rekeyed(fullPath, q) == etcRoot \o SubSeq(q, Len(fullPath) + 1, Len(q))
Below(fullPath, q)   == Len(q) >= Len(fullPath) /\ SubSeq(q, 1, Len(fullPath)) = fullPath
CopyAt(tree, fullPath) ==
  LET under == SelectSeq(tree.keys, LAMBDA q : Below(fullPath, q))
  IN  [values |-> [q \in {Rekeyed(fullPath, under[i]) : i \in DOMAIN under} |->
                     tree.values[fullPath \o SubSeq(q, 2, Len(q))]],
       keys   |-> [i \in DOMAIN under |-> Rekeyed(fullPath, under[i])]]

\* ReadString("{etc}")
EmptyCfg == [values |-> (etcRoot :> <<>>), keys |-> <<etcRoot>>]

\* ApplyCopy with the bug that the new Etc points to the tree of the receiver
ApplyShared(heap, id) == [heap |-> heap, id |-> id]

\* Apply, lines 233-235: values: e.values.Copy()
ApplyCopy(heap, id) == [heap |-> Append(heap, heap[id]), id |-> Len(heap) + 1]

\* the trees of the configurations that are read: TestSplit, {etc}, {etc 1 {a x}}
MkTree(kvs) ==
  [values |-> [q \in {kvs[i][1] : i \in DOMAIN kvs} |->
                 kvs[CHOOSE i \in DOMAIN kvs : kvs[i][1] = q][2]],
   keys   |-> [i \in DOMAIN kvs |-> kvs[i][1]]]
KeySub == <<"s", "u", "b">>
EtcTrees ==
  {MkTree(<< <<etcRoot, <<>>>>, <<etcRoot \o <<<<"a">>>>, <<"H">>>>,
             <<etcRoot \o <<KeySub>>, <<>>>>, <<etcRoot \o <<KeySub, <<"a">>>>, <<"W">>>>,
             <<etcRoot \o <<KeySub, <<"b">>>>, <<"F">>>> >>),
   EmptyCfg,
   MkTree(<< <<etcRoot, <<"1">>>>, <<etcRoot \o <<<<"a">>>>, <<"x">>>> >>)}

\* sub, a, some/invalid, the empty path, /SUB/
SplitPaths ==
  {<<"s", "u", "b">>, <<"a">>, <<"s", "/", "i">>, <<>>, <<"/", "S", "U", "B", "/">>}
\* Application{"c": "D"}, {"a": "Z"}, {"sub/b": "Q", "c": "D"} in its two orders
PathSubB == <<"s", "u", "b", "/", "b">>
Applications ==
  {<<>>,
   <<[path |-> <<"c">>, value |-> <<"D">>]>>,
   <<[path |-> <<"a">>, value |-> <<"Z">>]>>,
   <<[path |-> PathSubB, value |-> <<"Q">>], [path |-> <<"c">>, value |-> <<"D">>]>>,
   <<[path |-> <<"c">>, value |-> <<"D">>], [path |-> PathSubB, value |-> <<"Q">>]>>}

Made(op, recv, arg, id) == [op |-> op, recv |-> recv, arg |-> arg, values |-> id]

InitApply ==
  /\ src = <<>>
  /\ open = FALSE
  /\ pos = 0
  /\ index = -1
  /\ lastRune = FALSE
  /\ calls = <<>>
  /\ ret = NoRet
  /\ bk = "kv"
  /\ nb = NewNodeBuilder
  /\ tb = NewKeyStringValueTreeBuilder
  /\ events = <<>>
  /\ phase = "etc"
  /\ root1 = NoNode
  /\ wr = IdleWriter
  /\ out = <<>>
  /\ rootRes = <<>>
  /\ ws = NoContexts
  /\ vres = [tag |-> <<>>, res |-> ValidateTag(<<>>)]
  /\ framed = NotFramed
  /\ \E t \in EtcTrees :
       etc = [NoEtc EXCEPT !.heap = <<t>>, !.made = <<Made("Read", 0, <<>>, 1)>>]
  /\ MoreIdle

\* e.Split(path) for the configuration e = etc.made[r]
EtcSplit ==
  /\ phase = "etc"
  /\ Len(etc.made) < MaxMade
  /\ \E r \in DOMAIN etc.made, path \in SplitPaths :
       LET tree == etc.heap[etc.made[r].values]
           new  == IF ~HasPath(tree, path) THEN EmptyCfg
                   ELSE CopyAt(tree, makeFullPath(path))
       IN  etc' = [etc EXCEPT !.heap = Append(@, new),
                              !.made = Append(@, Made("Split", r, path, Len(etc.heap) + 1))]
  /\ UNCHANGED <<readerVars, builderVars, phase, root1, wr, out, rootRes, vres, ws, framed, moreVars>>

\* e.Apply(appl) for the configuration e = etc.made[r]
EtcApply ==
  /\ phase = "etc"
  /\ Len(etc.made) < MaxMade
  /\ \E r \in DOMAIN etc.made, appl \in Applications :
       LET c == ApplyCopy(etc.heap, etc.made[r].values)
       IN  etc' = [etc EXCEPT !.heap = [c.heap EXCEPT ![c.id] = ApplyAll(@, appl, 1)],
                              !.made = Append(@, Made("Apply", r, appl, c.id))]
  /\ UNCHANGED <<readerVars, builderVars, phase, root1, wr, out, rootRes, vres, ws, framed, moreVars>>

NextApply ==
  \/ EtcSplit
  \/ EtcApply

SpecApply == InitApply /\ [][NextApply]_vars

----------------------------------------------------------------------------
(* TestWriterProcessing, with the outputs read again: a tree is written    *)
(* with the standard SML writer pretty-printed and compact, in one of the  *)
(* two orders, and each output is read with ReadSML and a NodeBuilder.     *)

InitBoth ==
  /\ src = <<>>
  /\ open = FALSE
  /\ pos = 0
  /\ index = -1
  /\ lastRune = FALSE
  /\ calls = <<>>
  /\ ret = NoRet
  /\ bk = "node"
  /\ nb = NewNodeBuilder
  /\ tb = NewKeyStringValueTreeBuilder
  /\ events = <<>>
  /\ phase = "write"
  /\ root1 \in Trees
  /\ \E pretty \in BOOLEAN, ind \in IndentStrs :
       wr = [pretty |-> pretty, indentStr |-> ind, plugins |-> (<<>> :> "sml"),
             stack |-> <<"sml">>, indent |-> 0, agenda |-> <<Visit(root1)>>,
             sent |-> <<>>]
  /\ out = <<>>
  /\ rootRes = <<>>
  /\ ws = NoContexts
  /\ OthersIdle
  /\ vres = [tag |-> <<>>, res |-> ValidateTag(<<>>)]

\* builder.Root() after the first reading, then WriteSML of the same tree
\* with the context of the other mode
WriteOther ==
  /\ phase = "reread"
  /\ ret # NoRet
  /\ rootRes = <<>>
  /\ rootRes' = <<[after |-> Len(events), res |-> Root(nb)]>>
  /\ wr' = [pretty |-> ~wr.pretty, indentStr |-> wr.indentStr,
            plugins |-> (<<>> :> "sml"), stack |-> <<"sml">>, indent |-> 0,
            agenda |-> <<Visit(root1)>>, sent |-> <<>>]
  /\ out' = <<>>
  /\ phase' = "write"
  /\ UNCHANGED <<readerVars, builderVars, root1, vres, ws, otherVars>>

NextBoth ==
  \/ OpenTag
  \/ CloseTag
  \/ Text
  \/ Raw
  \/ Comment
  \/ ReadAgain
  \/ readPreliminary
  \/ readTag
  \/ readTagChildren
  \/ readBracedContent
  \/ readRawNode
  \/ readCommentNode
  \/ readTextNode
  \/ WriteOther

SpecBoth == InitBoth /\ [][NextBoth]_vars

----------------------------------------------------------------------------
(* Two WriterContexts with a sink each, as in TestWriterProcessing, and a  *)
(* WriteSML call on each of them; the calls of the two run interleaved.    *)
(* A processor object keeps the context of its last SetContext.            *)

CtxTrees ==
  {TagWith(<< <<"a">> >>, <<TextNodeOf(<<"x">>)>>),
   TagWith(<< <<"l", "i">>, <<"1">> >>, <<RawNodeOf(<<"x">>), CommentOf(<<"x">>)>>)}

InitCtx ==
  /\ src = <<>>
  /\ open = FALSE
  /\ pos = 0
  /\ index = -1
  /\ lastRune = FALSE
  /\ calls = <<>>
  /\ ret = NoRet
  /\ bk = "node"
  /\ nb = NewNodeBuilder
  /\ tb = NewKeyStringValueTreeBuilder
  /\ events = <<>>
  /\ phase = "ctx"
  /\ root1 = NoNode
  /\ wr = IdleWriter
  /\ out = <<>>
  /\ rootRes = <<>>
  /\ ws = NoContexts
  /\ OthersIdle
  /\ vres = [tag |-> <<>>, res |-> ValidateTag(<<>>)]

Created(c) == ws.plugins[c] # <<>>

\* NewWriterContext(wp, sink c, ...): wp is the root processor of context c
\* and gets c as its context
NewWriterContext ==
  /\ phase = "ctx"
  /\ \E c \in Ctxs, wp \in {"sml", "xml"} :
       /\ ~Created(c)
       /\ ws' = [ws EXCEPT !.plugins[c] = (<<>> :> wp), !.pctx[wp] = c]
  /\ UNCHANGED <<readerVars, builderVars, phase, root1, wr, out, rootRes, vres, otherVars>>

\* ctx.Register("li", wp) on context c
Register ==
  /\ phase = "ctx"
  /\ \E c \in Ctxs, wp \in {"li"} :
       /\ Created(c)
       /\ ~ws.started[c]
       /\ <<"l", "i">> \notin DOMAIN ws.plugins[c]
       /\ ws' = [ws EXCEPT !.plugins[c] = @ @@ (<<"l", "i">> :> wp), !.pctx[wp] = c]
  /\ UNCHANGED <<readerVars, builderVars, phase, root1, wr, out, rootRes, vres, otherVars>>

\* WriteSML(node, ctx) on context c, up to the call of node.ProcessWith(w);
\* context A prints pretty, context B compact
CtxWriteSML ==
  /\ phase = "ctx"
  /\ \E c \in Ctxs, node \in CtxTrees, ind \in IndentStrs :
       /\ Created(c)
       /\ ~ws.started[c]
       /\ ws' = [ws EXCEPT !.started[c] = TRUE,
                           !.writer[c] = [pretty |-> (c = "A"), indentStr |-> ind,
                                          plugins |-> ws.plugins[c],
                                          stack |-> <<ws.plugins[c][<<>>]>>, indent |-> 0,
                                          agenda |-> <<Visit(node)>>, sent |-> <<>>]]
  /\ UNCHANGED <<readerVars, builderVars, phase, root1, wr, out, rootRes, vres, otherVars>>

\* the WriteSML call on context c is about to visit a node of the kind
CtxVisiting(c, kind) ==
  /\ phase = "ctx"
  /\ ws.started[c]
  /\ ws.writer[c].agenda # <<>>
  /\ IF kind = "close" THEN ws.writer[c].agenda[1].op = "close"
     ELSE ws.writer[c].agenda[1].op = "visit" /\ ws.writer[c].agenda[1].node.kind = kind

\* The contexts after a method of the mlWriter of context c with result r:
\* indentation and newline go through w.context.Writef to the sink of c, the
\* text of the plugin through the Writef of the context the plugin holds.
CtxWritten(c, r) ==
  LET t == ws.pctx[r.proc]
  IN  ws' = [ws EXCEPT
               !.writer[c] = r.w,
               !.emitted[c] = @ \o r.pre \o r.body \o r.post,
               !.sink = IF t = c THEN [@ EXCEPT ![c] = @ \o r.pre \o r.body \o r.post]
                        ELSE [@ EXCEPT ![c] = @ \o r.pre \o r.post, ![t] = @ \o r.body]]

CtxOpenTag ==
  /\ \E c \in Ctxs : CtxVisiting(c, "tag") /\ CtxWritten(c, W_OpenTag(ws.writer[c]))
  /\ UNCHANGED <<readerVars, builderVars, phase, root1, wr, out, rootRes, vres, otherVars>>

CtxCloseTag ==
  /\ \E c \in Ctxs : CtxVisiting(c, "close") /\ CtxWritten(c, W_CloseTag(ws.writer[c]))
  /\ UNCHANGED <<readerVars, builderVars, phase, root1, wr, out, rootRes, vres, otherVars>>

CtxText ==
  /\ \E c \in Ctxs : CtxVisiting(c, "text") /\ CtxWritten(c, W_Content(ws.writer[c], "Text"))
  /\ UNCHANGED <<readerVars, builderVars, phase, root1, wr, out, rootRes, vres, otherVars>>

CtxRaw ==
  /\ \E c \in Ctxs : CtxVisiting(c, "raw") /\ CtxWritten(c, W_Content(ws.writer[c], "Raw"))
  /\ UNCHANGED <<readerVars, builderVars, phase, root1, wr, out, rootRes, vres, otherVars>>

CtxComment ==
  /\ \E c \in Ctxs :
       CtxVisiting(c, "comment") /\ CtxWritten(c, W_Content(ws.writer[c], "Comment"))
  /\ UNCHANGED <<readerVars, builderVars, phase, root1, wr, out, rootRes, vres, otherVars>>

NextCtx ==
  \/ NewWriterContext
  \/ Register
  \/ CtxWriteSML
  \/ CtxOpenTag
  \/ CtxCloseTag
  \/ CtxText
  \/ CtxRaw
  \/ CtxComment

SpecCtx == InitCtx /\ [][NextCtx]_vars

----------------------------------------------------------------------------
(* Package stringex: Matches (stringex/defaulter.go, lines 322-516).  A    *)
(* matcher holds the runes of pattern and value, each with a rune 0 behind *)
(* it, a position and a remaining length for each.  Positions count from   *)
(* 0 as in the code; an index outside of its slice panics.                 *)

smlVars == <<readerVars, builderVars, phase, root1, wr, out, rootRes, vres, ws, framed>>

MaxPattern == 3   \* longest pattern of the runes of PatternAlphabet
MaxValue   == 2   \* longest value

NUL == "NUL"
Code(c) ==
  CASE c = NUL  -> 0
    [] c = "*"  -> 42
    [] c = "-"  -> 45
    [] c = "?"  -> 63
    [] c = "A"  -> 65
    [] c = "["  -> 91
    [] c = "\\" -> 92
    [] c = "]"  -> 93
    [] c = "^"  -> 94
    [] c = "a"  -> 97
    [] c = "b"  -> 98
    [] c = "c"  -> 99

Has(S, i) == i \in 0..(Len(S) - 1)
Ch(S, i)  == S[i + 1]

matchSuccess == "success"
matchCont    == "cont"
matchFail    == "fail"
matchPanic   == "panic"
Res(r, m)    == [r |-> r, m |-> m]
Fwd(m, n)    == [m EXCEPT !.pp = @ + n, !.pl = @ - n]
Eat(m)       == [m EXCEPT !.vp = @ + 1, !.vl = @ - 1]

\* newMatcher(pattern, value, false)
newMatcher(pattern, value) ==
  [P |-> Append(pattern, NUL), V |-> Append(value, NUL),
   m |-> [pp |-> 0, pl |-> Len(pattern), vp |-> 0, vl |-> Len(value)]]

processDefault(P, V, m) ==
  IF ~Has(P, m.pp) \/ ~Has(V, m.vp) THEN Res(matchPanic, m)
  ELSE IF Ch(P, m.pp) # Ch(V, m.vp) THEN Res(matchFail, m)
  ELSE Res(matchCont, Eat(m))

processBackslash(m) == IF m.pl >= 2 THEN Fwd(m, 1) ELSE m

processQuestionMark(m) ==
  IF m.vl = 0 THEN Res(matchFail, m) ELSE Res(matchCont, Eat(m))

\* processOpenBracket, lines 445-479: the loop over the group
RECURSIVE group(_, _, _, _, _)
group(P, V, m, not, match) ==
  LET done(n) == IF (IF not THEN ~match ELSE match)
                 THEN Res(matchCont, Eat(n)) ELSE Res(matchFail, n)
  IN  IF ~Has(P, m.pp) THEN Res(matchPanic, m)
      ELSE IF Ch(P, m.pp) = "\\"
           THEN IF ~Has(P, m.pp + 1) \/ ~Has(V, m.vp) THEN Res(matchPanic, m)
                ELSE group(P, V, Fwd(m, 2), not, match \/ Ch(P, m.pp + 1) = Ch(V, m.vp))
      ELSE IF Ch(P, m.pp) = "]" THEN done(m)
      ELSE IF m.pl = 0 THEN done(Fwd(m, -1))
      ELSE IF ~Has(P, m.pp + 1) THEN Res(matchPanic, m)
      ELSE IF Ch(P, m.pp + 1) = "-" /\ m.pl >= 3
           THEN IF ~Has(P, m.pp + 2) \/ ~Has(V, m.vp) THEN Res(matchPanic, m)
                ELSE LET a  == Code(Ch(P, m.pp))
                         b  == Code(Ch(P, m.pp + 2))
                         vr == Code(Ch(V, m.vp))
                         lo == IF a > b THEN b ELSE a
                         hi == IF a > b THEN a ELSE b
                     IN  group(P, V, Fwd(m, 3), not, match \/ (vr >= lo /\ vr <= hi))
      ELSE IF ~Has(V, m.vp) THEN Res(matchPanic, m)
      ELSE group(P, V, Fwd(m, 1), not, match \/ Ch(P, m.pp) = Ch(V, m.vp))

processOpenBracket(P, V, m) ==
  LET m1 == Fwd(m, 1)
  IN  IF ~Has(P, m1.pp) THEN Res(matchPanic, m1)
      ELSE IF Ch(P, m1.pp) = "^" THEN group(P, V, Fwd(m1, 1), TRUE, FALSE)
      ELSE group(P, V, m1, FALSE, FALSE)

\* the loops over the asterisks: the one of processAsterisk looks at the rune
\* behind the position, the one of matches at the rune at the position
RECURSIVE skipNext(_, _)
skipNext(P, m) ==
  IF ~Has(P, m.pp + 1) THEN Res(matchPanic, m)
  ELSE IF Ch(P, m.pp + 1) = "*" THEN skipNext(P, Fwd(m, 1))
  ELSE Res(matchCont, m)

RECURSIVE skipHere(_, _)
skipHere(P, m) ==
  IF ~Has(P, m.pp) THEN Res(matchPanic, m)
  ELSE IF Ch(P, m.pp) = "*" THEN skipHere(P, Fwd(m, 1))
  ELSE Res(matchCont, m)

RECURSIVE matches(_, _, _), processAsterisk(_, _, _), asteriskLoop(_, _, _),
          processPatternRune(_, _, _)

\* matches: "true", "false" or "panic"
matches(P, V, m) ==
  LET final(n) == IF n.pl = 0 /\ n.vl = 0 THEN "true" ELSE "false"
  IN  IF m.pl > 0
      THEN LET r == processPatternRune(P, V, m)
           IN  IF r.r = matchPanic THEN "panic"
               ELSE IF r.r = matchSuccess THEN "true"
               ELSE IF r.r = matchFail THEN "false"
               ELSE LET n == Fwd(r.m, 1)
                    IN  IF n.vl = 0
                        THEN LET k == skipHere(P, n)
                             IN  IF k.r = matchPanic THEN "panic" ELSE final(k.m)
                        ELSE matches(P, V, n)
      ELSE final(m)

processPatternRune(P, V, m) ==
  IF ~Has(P, m.pp) THEN Res(matchPanic, m)
  ELSE IF Ch(P, m.pp) = "*" THEN processAsterisk(P, V, m)
  ELSE IF Ch(P, m.pp) = "?" THEN processQuestionMark(m)
  ELSE IF Ch(P, m.pp) = "[" THEN processOpenBracket(P, V, m)
  ELSE IF Ch(P, m.pp) = "\\" THEN processDefault(P, V, processBackslash(m))
  ELSE processDefault(P, V, m)

processAsterisk(P, V, m) ==
  LET s == skipNext(P, m)
  IN  IF s.r = matchPanic THEN s
      ELSE IF s.m.pl = 1 THEN Res(matchSuccess, s.m)
      ELSE asteriskLoop(P, V, s.m)

\* lines 409-421: a new matcher for the rest of the pattern and every rest
\* of the value; the copies take the rune 0 of their slices with them
asteriskLoop(P, V, m) ==
  IF m.vl > 0
  THEN IF m.pp + 1 > Len(P) \/ m.vp > Len(V) \/ m.pp + 1 < 0 \/ m.vp < 0
       THEN Res(matchPanic, m)
       ELSE LET pam == newMatcher(SubSeq(P, m.pp + 2, Len(P)), SubSeq(V, m.vp + 1, Len(V)))
                sub == matches(pam.P, pam.V, pam.m)
            IN  IF sub = "panic" THEN Res(matchPanic, m)
                ELSE IF sub = "true" THEN Res(matchSuccess, m)
                ELSE asteriskLoop(P, V, Eat(m))
  ELSE Res(matchFail, m)

\* Matches(pattern, value, ignoreCase)
Matches(pattern, value, ignoreCase) ==
  LET pam == IF ignoreCase THEN newMatcher(ToLower(pattern), ToLower(value))
             ELSE newMatcher(pattern, value)
  IN  matches(pam.P, pam.V, pam.m)

PatternAlphabet == {"a", "b", "*", "?", "[", "]", "^", "-", "\\"}
ValueAlphabet   == {"a", "b", "A"}
\* patterns with a group: [a] [^a] [ab] [a-c] [^a-c], alone or before something
Groups == {<<"a">>, <<"^", "a">>, <<"a", "b">>, <<"a", "-", "c">>, <<"^", "a", "-", "c">>}
Behind == {<<>>, <<"*">>, <<"?">>, <<"b">>, <<"*", "b">>}
Patterns ==
  UNION {[1..n -> PatternAlphabet] : n \in 0..MaxPattern}
    \cup {<<"[">> \o g \o <<"]">> \o t : g \in Groups, t \in Behind}
    \cup {l \o <<"*">> \o r : l, r \in {<<"a">>, <<"a", "b">>, <<"?", "b">>}}
MatchValues == UNION {[1..n -> ValueAlphabet] : n \in 0..MaxValue}

InitMatch ==
  /\ src = <<>>
  /\ open = FALSE
  /\ pos = 0
  /\ index = -1
  /\ lastRune = FALSE
  /\ calls = <<>>
  /\ ret = NoRet
  /\ bk = "node"
  /\ nb = NewNodeBuilder
  /\ tb = NewKeyStringValueTreeBuilder
  /\ events = <<>>
  /\ phase = "lib"
  /\ root1 = NoNode
  /\ wr = IdleWriter
  /\ out = <<>>
  /\ rootRes = <<>>
  /\ ws = NoContexts
  /\ vres = [tag |-> <<>>, res |-> ValidateTag(<<>>)]
  /\ framed = NotFramed
  /\ etc = NoEtc
  /\ mt \in [on : {TRUE}, pattern : Patterns, value : MatchValues, ignoreCase : BOOLEAN,
              res : {"none"}]
  /\ scr = [on |-> FALSE]
  /\ dj = [on |-> FALSE]
  /\ gjp = [on |-> FALSE]

CallMatches ==
  /\ mt.on
  /\ mt.res = "none"
  /\ mt' = [mt EXCEPT !.res = Matches(mt.pattern, mt.value, mt.ignoreCase)]
  /\ UNCHANGED <<smlVars, etc, scr, dj, gjp>>

NextMatch == CallMatches

SpecMatch == InitMatch /\ [][NextMatch]_vars

----------------------------------------------------------------------------
(* Package scroller (unnamed/part_009).  scr.source is the content of the  *)
(* io.ReadSeeker and scr.spos its offset, scr.rbuf what the bufio.Reader   *)
(* holds unread, scr.wbuf what the bufio.Writer holds unflushed, and       *)
(* scr.target what has reached the io.Writer.  The goroutine backend is at *)
(* scr.pc; loop and notifier are of the library tideland.dev/go/together:  *)
(* scr.closed is the Closer of the loop, scr.status the Signalbox.         *)

MaxChunks == 2   \* pieces the source is made of when the scroller starts
MaxAppend == 1   \* pieces appended to the source while the scroller runs
MaxSkip   == 2   \* largest Skip option

delimiter == "\n"

\* bufio.NewReaderSize gives the reader at least 16 bytes
minReadBufferSize == 16

\* isValid with the bug that the filter is not asked
isValidAlways(filter, line) == TRUE

\* isValid: the filter of the model, when set, takes the lines with an a
isValid(filter, line) ==
  IF filter = "nil" THEN TRUE ELSE \E i \in DOMAIN line : line[i] = "a"

\* bytes.LastIndex(b, delimiters), counted from 0, -1 for none
LastIndex(b) ==
  IF \A i \in DOMAIN b : b[i] # delimiter THEN -1
  ELSE (CHOOSE i \in DOMAIN b : b[i] = delimiter /\ \A j \in DOMAIN b : b[j] = delimiter => j <= i) - 1

Zeros(n) == [i \in 1..n |-> "0"]

\* skipInitial, lines 247-265: the loop over the lines of the buffer from the
\* last one; the result is the new end, or the position found
RECURSIVE lastLines(_, _, _, _, _, _)
lastLines(data, end, offset, found, skip, filter) ==
  LET start == LastIndex(SubSeq(data, 1, end - 1))
  IN  IF start = -1 /\ offset >= 0 THEN [hit |-> FALSE, end |-> end, found |-> found, seekPos |-> 0]
      ELSE IF isValid(filter, SubSeq(data, start + 2, end))
           THEN IF found + 1 >= skip
                THEN [hit |-> TRUE, end |-> end, found |-> found + 1,
                      seekPos |-> offset + start + 1]
                ELSE lastLines(data, start + 1, offset, found + 1, skip, filter)
      ELSE lastLines(data, start + 1, offset, found, skip, filter)

\* skipInitial, lines 216-270: SeekLoop for a buffer of len(data) bytes with
\* capacity cap; the result is seekPos
RECURSIVE SeekLoop(_, _, _, _, _, _, _, _)
SeekLoop(source, offset, data, cap, found, skip, filter, bufferSize) ==
  IF offset <= 0 THEN 0
  ELSE LET cap1   == IF cap - Len(data) < bufferSize THEN cap * 2 ELSE cap
           space0 == cap1 - Len(data)
           space  == IF space0 > offset THEN offset ELSE space0
           off1   == offset - space
           data1  == SubSeq(source, off1 + 1, off1 + space) \o data
           end    == LastIndex(data1)
       IN  IF end = -1
           THEN SeekLoop(source, off1, <<>>, cap1, found, skip, filter, bufferSize)
           ELSE LET r == lastLines(data1, end + 1, off1, found, skip, filter)
                IN  IF r.hit THEN r.seekPos
                    ELSE SeekLoop(source, off1, SubSeq(data1, 1, r.end), cap1, r.found,
                                  skip, filter, bufferSize)

\* skipInitial with the bug that one line more is skipped
skipInitialOneMore(source, skip, filter, bufferSize) ==
  IF skip < 1 THEN Len(source)
  ELSE SeekLoop(source, Len(source), Zeros(bufferSize), bufferSize, 0, skip + 1, filter,
                bufferSize)

\* skipInitial: the offset of the source when it returns
skipInitial(source, skip, filter, bufferSize) ==
  IF skip < 1 THEN Len(source)
  ELSE SeekLoop(source, Len(source), Zeros(bufferSize), bufferSize, 0, skip, filter,
                bufferSize)

ErrBufferFull == "bufio: buffer full"

\* bufio.Reader.ReadSlice(delimiter) for a reader that holds rbuf and a
\* source at offset spos
RECURSIVE ReadSlice(_, _, _, _)
ReadSlice(rbuf, source, spos, size) ==
  IF \E i \in DOMAIN rbuf : rbuf[i] = delimiter
  THEN LET i == CHOOSE k \in DOMAIN rbuf :
                  rbuf[k] = delimiter /\ \A j \in 1..(k - 1) : rbuf[j] # delimiter
       IN  [slice |-> SubSeq(rbuf, 1, i), err |-> "nil",
            rbuf |-> SubSeq(rbuf, i + 1, Len(rbuf)), spos |-> spos]
  ELSE IF Len(rbuf) >= size
       THEN [slice |-> rbuf, err |-> ErrBufferFull, rbuf |-> <<>>, spos |-> spos]
  ELSE LET free == size - Len(rbuf)
           rest == Len(source) - spos
           n    == IF free > rest THEN rest ELSE free
       IN  IF n = 0 THEN [slice |-> rbuf, err |-> "EOF", rbuf |-> <<>>, spos |-> spos]
           ELSE ReadSlice(rbuf \o SubSeq(source, spos + 1, spos + n), source, spos + n, size)

\* readLine, lines 293-296: the slices of a line longer than the buffer
RECURSIVE longLine(_, _, _, _)
longLine(line, r, source, size) ==
  IF r.err = ErrBufferFull
  THEN LET q == ReadSlice(r.rbuf, source, r.spos, size)
       IN  longLine(line \o q.slice, q, source, size)
  ELSE [line |-> line, err |-> r.err, rbuf |-> r.rbuf, spos |-> r.spos]

\* readLine: the line and the error, the reader and the offset of the source
RECURSIVE readLine(_, _, _, _, _)
readLine(rbuf, source, spos, size, filter) ==
  LET r == ReadSlice(rbuf, source, spos, size)
  IN  IF r.err = "nil"
      THEN IF isValid(filter, r.slice)
           THEN [line |-> r.slice, err |-> "nil", rbuf |-> r.rbuf, spos |-> r.spos]
           ELSE readLine(r.rbuf, source, r.spos, size, filter)
      ELSE LET l == longLine(r.slice, r, source, size)
           IN  IF l.err = "nil"
               THEN IF isValid(filter, l.line) THEN l
                    ELSE readLine(l.rbuf, source, l.spos, size, filter)
               ELSE [line |-> <<>>, err |-> "EOF", rbuf |-> l.rbuf,
                     spos |-> l.spos - Len(l.line)]

Chunks == {<<"a", delimiter>>, <<"b", delimiter>>, <<"a">>, <<delimiter>>}
LongLine == [i \in 1..(minReadBufferSize + 1) |-> "a"] \o <<delimiter>>
RECURSIVE Concat(_)
Concat(ss) == IF ss = <<>> THEN <<>> ELSE ss[1] \o Concat(Tail(ss))
Sources ==
  {Concat(cs) : cs \in UNION {[1..n -> Chunks] : n \in 0..MaxChunks}}
    \cup {<<"b">> \o LongLine, LongLine \o <<"b", delimiter>>,
          <<"a", delimiter, "b", delimiter, "a", delimiter>>,
          <<"a", delimiter, "a", delimiter, "b", delimiter, "a">>}
BufferSizes == {1, 2, 4}
Clients == {"c1", "c2"}

NewScroller(source, skip, filter, bufferSize, fails) ==
  [on |-> TRUE, source |-> source, initial |-> source, spos |-> 0,
   rbuf |-> <<>>, wbuf |-> <<>>, target |-> <<>>, start |-> -1,
   skip |-> skip, filter |-> filter, bufferSize |-> bufferSize,
   fails |-> fails, pc |-> "skipInitial", timer |-> "ready",
   closed |-> FALSE, status |-> "working", err |-> "nil",
   chunks |-> 0, client |-> [c \in Clients |-> "idle"],
   got |-> [c \in Clients |-> [op |-> "none", err |-> "nil"]]]

SmlIdle ==
  /\ src = <<>>
  /\ open = FALSE
  /\ pos = 0
  /\ index = -1
  /\ lastRune = FALSE
  /\ calls = <<>>
  /\ ret = NoRet
  /\ bk = "node"
  /\ nb = NewNodeBuilder
  /\ tb = NewKeyStringValueTreeBuilder
  /\ events = <<>>
  /\ phase = "lib"
  /\ root1 = NoNode
  /\ wr = IdleWriter
  /\ out = <<>>
  /\ rootRes = <<>>
  /\ ws = NoContexts
  /\ vres = [tag |-> <<>>, res |-> ValidateTag(<<>>)]
  /\ framed = NotFramed
  /\ etc = NoEtc

ScrollIdle ==
  /\ SmlIdle
  /\ mt = [on |-> FALSE]
  /\ dj = [on |-> FALSE]
  /\ gjp = [on |-> FALSE]

InitScroll ==
  /\ ScrollIdle
  /\ \E source \in Sources, skip \in 0..MaxSkip, filter \in {"nil", "a"},
        bufferSize \in BufferSizes :
       scr = NewScroller(source, skip, filter, bufferSize, FALSE)

InitStop ==
  /\ ScrollIdle
  /\ \E source \in {<<>>, <<"a", delimiter>>, <<"a", delimiter, "b">>},
        skip \in 0..1, fails \in BOOLEAN :
       scr = NewScroller(source, skip, "nil", 4, fails)

Others == <<smlVars, etc, mt, dj, gjp>>

\* something is appended to the source
AppendSource ==
  /\ scr.on
  /\ scr.chunks < MaxAppend
  /\ \E c \in Chunks :
       scr' = [scr EXCEPT !.source = @ \o c, !.chunks = @ + 1]
  /\ UNCHANGED Others

\* backend, lines 169-171
SkipInitial ==
  /\ scr.on
  /\ scr.pc = "skipInitial"
  /\ LET p == skipInitial(scr.source, scr.skip, scr.filter, scr.bufferSize)
     IN  scr' = [scr EXCEPT !.spos = p, !.start = p, !.initial = scr.source,
                            !.pc = "select"]
  /\ UNCHANGED Others

\* case <-c.Done() with the bug that the loop goes on
SelectDoneKeepsOn ==
  /\ scr.on
  /\ scr.pc = "select"
  /\ scr.closed
  /\ scr' = [scr EXCEPT !.pc = "lines"]
  /\ UNCHANGED Others

\* backend, line 177: case <-c.Done()
SelectDone ==
  /\ scr.on
  /\ scr.pc = "select"
  /\ scr.closed
  /\ scr' = [scr EXCEPT !.pc = "ended", !.status = "stopped"]
  /\ UNCHANGED Others

\* backend, line 179: case <-timer.C
SelectTimer ==
  /\ scr.on
  /\ scr.pc = "select"
  /\ scr.timer = "ready"
  /\ scr' = [scr EXCEPT !.pc = "lines", !.timer = "idle"]
  /\ UNCHANGED Others

\* the poll time has passed
TimerExpires ==
  /\ scr.on
  /\ scr.timer = "waiting"
  /\ scr' = [scr EXCEPT !.timer = "ready"]
  /\ UNCHANGED Others

\* backend, lines 181-192: one round of the inner loop
ReadLine ==
  /\ scr.on
  /\ scr.pc = "lines"
  /\ LET size == IF scr.bufferSize < minReadBufferSize THEN minReadBufferSize
                 ELSE scr.bufferSize
         r    == readLine(scr.rbuf, scr.source, scr.spos, size, scr.filter)
     IN  scr' = [scr EXCEPT !.rbuf = r.rbuf, !.spos = r.spos, !.wbuf = @ \o r.line,
                            !.pc = IF r.err = "nil" THEN "lines" ELSE "flush"]
  /\ UNCHANGED Others

\* Flush with the bug that the timer is not set again
FlushOnce ==
  /\ scr.on
  /\ scr.pc = "flush"
  /\ IF scr.fails /\ scr.wbuf # <<>>
     THEN scr' = [scr EXCEPT !.pc = "ended", !.status = "stopped", !.err = "write failed"]
     ELSE scr' = [scr EXCEPT !.target = @ \o scr.wbuf, !.wbuf = <<>>, !.pc = "select"]
  /\ UNCHANGED Others

\* backend, lines 194-197: Flush and timer.Reset
Flush ==
  /\ scr.on
  /\ scr.pc = "flush"
  /\ IF scr.fails /\ scr.wbuf # <<>>
     THEN scr' = [scr EXCEPT !.pc = "ended", !.status = "stopped", !.err = "write failed"]
     ELSE scr' = [scr EXCEPT !.target = @ \o scr.wbuf, !.wbuf = <<>>, !.pc = "select",
                             !.timer = "waiting"]
  /\ UNCHANGED Others

\* Stop, lines 148-153, up to the call of s.loop.Stop(nil), which closes the
\* Closer and waits for the backend to return
CallStop(c) ==
  /\ scr.on
  /\ scr.client[c] = "idle"
  /\ IF scr.status = "stopped"
     THEN scr' = [scr EXCEPT !.got[c] = [op |-> "Stop", err |-> scr.err]]
     ELSE scr' = [scr EXCEPT !.client[c] = "inStop", !.closed = TRUE]
  /\ UNCHANGED Others

\* s.loop.Stop(nil) returns
StopReturns(c) ==
  /\ scr.on
  /\ scr.client[c] = "inStop"
  /\ scr.status = "stopped"
  /\ scr' = [scr EXCEPT !.client[c] = "idle", !.got[c] = [op |-> "Stop", err |-> scr.err]]
  /\ UNCHANGED Others

\* Wait, line 157
CallWait(c) ==
  /\ scr.on
  /\ scr.client[c] = "idle"
  /\ scr' = [scr EXCEPT !.client[c] = "inWait"]
  /\ UNCHANGED Others

\* Wait, lines 157-158: the Signalbox is Stopped
WaitReturns(c) ==
  /\ scr.on
  /\ scr.client[c] = "inWait"
  /\ scr.status = "stopped"
  /\ scr' = [scr EXCEPT !.client[c] = "idle", !.got[c] = [op |-> "Wait", err |-> scr.err]]
  /\ UNCHANGED Others

Backend ==
  \/ SkipInitial
  \/ SelectDone
  \/ SelectTimer
  \/ TimerExpires
  \/ ReadLine
  \/ Flush

NextScroll ==
  \/ AppendSource
  \/ Backend
  \/ CallStop("c1")
  \/ StopReturns("c1")

NextStop ==
  \/ AppendSource
  \/ Backend
  \/ \E c \in Clients : CallStop(c)
  \/ \E c \in Clients : StopReturns(c)
  \/ \E c \in Clients : CallWait(c)
  \/ \E c \in Clients : WaitReturns(c)

SpecScroll == InitScroll /\ [][NextScroll]_vars

\* the goroutine of the backend runs, the timer fires, and a closed Closer is
\* seen; the calls that wait return when they can
SpecStop ==
  /\ InitStop
  /\ [][NextStop]_vars
  /\ WF_vars(SkipInitial)
  /\ WF_vars(ReadLine)
  /\ WF_vars(Flush)
  /\ WF_vars(TimerExpires)
  /\ WF_vars(SelectTimer)
  /\ SF_vars(SelectDone)
  /\ \A c \in Clients : WF_vars(StopReturns(c)) /\ WF_vars(WaitReturns(c))

----------------------------------------------------------------------------
(* Package dj (dj/node.go, dj/value.go).  The data of a document is null,  *)
(* a string, an object (a function from keys to data) or an array (a       *)
(* sequence of data); keys are sequences of characters.                    *)

MaxDepth == 2   \* nesting of the data
MaxPath  == 2   \* keys of a path

Null == [t |-> "null"]
Str(x) == [t |-> "string", v |-> x]
Obj(m) == [t |-> "object", m |-> m]
Arr(a) == [t |-> "array", a |-> a]

ObjectKeys == {<<"a">>, <<"#", "0">>}
PathKeys == {<<"a">>, <<"b">>, <<"#", "0">>, <<"#", "1">>, <<"#", "-", "1">>, <<"#", "x">>,
             <<"#">>, <<>>}

RECURSIVE Data(_)
Data(depth) ==
  IF depth = 0 THEN {Null, Str("s"), Str("t")}
  ELSE LET below == Data(depth - 1)
       IN  {Null, Str("s")}
             \cup {Obj(m) : m \in UNION {[K -> below] : K \in SUBSET ObjectKeys}}
             \cup {Arr(a) : a \in UNION {[1..n -> below] : n \in 0..2}}

PathsOf(n) == UNION {[1..k -> PathKeys] : k \in 0..n}

\* strconv.Atoi for the keys of the model: the number, or none
Atoi(cs) ==
  IF cs = <<"0">> THEN [ok |-> TRUE, n |-> 0]
  ELSE IF cs = <<"1">> THEN [ok |-> TRUE, n |-> 1]
  ELSE IF cs = <<"-", "1">> THEN [ok |-> TRUE, n |-> -1]
  ELSE [ok |-> FALSE, n |-> 0]

\* indexOf: index[0] of an empty key is out of range
indexOf(key) ==
  IF key = <<>> THEN [panic |-> TRUE, n |-> 0, err |-> "nil"]
  ELSE IF key[1] # "#" THEN [panic |-> FALSE, n |-> 0, err |-> "no index"]
  ELSE LET r == Atoi(Tail(key))
       IN  [panic |-> FALSE, n |-> r.n,
            err |-> IF r.ok THEN "nil" ELSE "strconv.Atoi: invalid syntax"]

PathError(mode, path, err) ==
  [panic |-> FALSE, data |-> Null, err |-> err, mode |-> mode, path |-> path]
Found(data) == [panic |-> FALSE, data |-> data, err |-> "nil", mode |-> "", path |-> <<>>]
Panicked == [panic |-> TRUE, data |-> Null, err |-> "nil", mode |-> "", path |-> <<>>]

\* nodeAt
RECURSIVE nodeAt(_, _, _)
nodeAt(data, done, path) ==
  IF Len(path) = 0 THEN Found(data)
  ELSE IF data.t = "object"
  THEN IF path[1] \notin DOMAIN data.m
       THEN PathError("object", Append(done, path[1]), "path does not exist")
       ELSE IF Len(path) > 1
            THEN nodeAt(data.m[path[1]], Append(done, path[1]), Tail(path))
            ELSE Found(data.m[path[1]])
  ELSE IF data.t = "array"
  THEN LET i == indexOf(path[1])
       IN  IF i.panic THEN Panicked
           ELSE IF i.err # "nil" THEN PathError("array", Append(done, path[1]), i.err)
           ELSE IF i.n < 0 \/ i.n > Len(data.a) - 1
                THEN PathError("array", Append(done, path[1]), "invalid array index")
           ELSE IF Len(path) > 1
                THEN nodeAt(data.a[i.n + 1], Append(done, path[1]), Tail(path))
                ELSE Found(data.a[i.n + 1])
  ELSE PathError("value", done \o path, "path too long")

\* (*Value).At: the Value returned, or the panic
ValueAt(v, path) ==
  LET r == nodeAt(v.data, <<>>, path)
  IN  IF r.panic THEN [panic |-> TRUE, path |-> <<>>, data |-> Null, err |-> "nil"]
      ELSE [panic |-> FALSE, path |-> v.path \o path, data |-> r.data, err |-> r.err]

NoValue == [panic |-> FALSE, path |-> <<>>, data |-> Null, err |-> "none"]

InitDj ==
  /\ SmlIdle
  /\ mt = [on |-> FALSE]
  /\ scr = [on |-> FALSE]
  /\ gjp = [on |-> FALSE]
  /\ \E data \in Data(MaxDepth), path \in PathsOf(MaxPath) :
       dj = [on |-> TRUE, v |-> [path |-> <<>>, data |-> data, err |-> "nil"],
             keys |-> path, at |-> NoValue]

\* a client calls At with the keys, on the value of the document or on the
\* value a call before has returned
CallAt ==
  /\ dj.on
  /\ dj.at = NoValue
  /\ dj' = [dj EXCEPT !.at = ValueAt(dj.v, dj.keys)]
  /\ UNCHANGED <<smlVars, etc, mt, scr, gjp>>

\* a client goes on from the value returned with the last key again
CallAtAgain ==
  /\ dj.on
  /\ dj.at # NoValue
  /\ ~dj.at.panic
  /\ dj.at.err = "nil"
  /\ dj.keys # <<>>
  /\ Len(dj.v.path) < MaxPath
  /\ dj' = [dj EXCEPT !.v = [path |-> dj.at.path, data |-> dj.at.data, err |-> "nil"],
                       !.keys = <<dj.keys[Len(dj.keys)]>>,
                       !.at = NoValue]
  /\ UNCHANGED <<smlVars, etc, mt, scr, gjp>>

NextDj ==
  \/ CallAt
  \/ CallAtAgain

SpecDj == InitDj /\ [][NextDj]_vars

----------------------------------------------------------------------------
(* Package gjp (unnamed/part_000 to part_002).  The root of a Document is  *)
(* what json.Unmarshal gives: nil for null, here Null, a string, an object *)
(* or an array; a path is the sequence of its parts.  process, valueAt and *)
(* the conversions between a path and its parts are not among the sources; *)
(* they are taken from what TestProcessing, TestSeparator and TestCompare  *)
(* say: the processor is called for every scalar, every null and every     *)
(* empty object or array, and the Value of a path that does not exist is   *)
(* undefined.                                                              *)

MaxNest == 1   \* nesting of the documents compared

Itoa(i) == IF i = 0 THEN "0" ELSE IF i = 1 THEN "1" ELSE "2"
FieldOrder == <<"0", "a">>
Fields == {FieldOrder[i] : i \in DOMAIN FieldOrder}

RECURSIVE Roots(_)
Roots(depth) ==
  IF depth = 0 THEN {Null, Str("s"), Str("t")}
  ELSE LET below == Roots(depth - 1)
       IN  {Null, Str("s")}
             \cup {Obj(m) : m \in UNION {[K -> below] : K \in SUBSET Fields}}
             \cup {Arr(a) : a \in UNION {[1..n -> below] : n \in 0..2}}

Nested ==
  {Obj([k \in {"a"} |-> Obj([j \in {"a"} |-> Str("s")])]),
   Obj([k \in {"a"} |-> Obj([j \in {"a"} |-> Null])]),
   Obj([k \in {"a"} |-> Obj([j \in {"0"} |-> Str("s")])]),
   Obj([k \in {"a"} |-> Arr(<<Str("s")>>)]),
   Obj([k \in {"a"} |-> Arr(<<>>)]),
   Arr(<<Obj([j \in {"a"} |-> Str("s")])>>)}

\* process: the calls of the processor, in the order of the fields
RECURSIVE process(_, _)
process(node, parts) ==
  IF node.t = "object" /\ DOMAIN node.m # {}
  THEN LET RECURSIVE fields(_)
           fields(i) ==
             IF i > Len(FieldOrder) THEN <<>>
             ELSE (IF FieldOrder[i] \in DOMAIN node.m
                   THEN process(node.m[FieldOrder[i]], Append(parts, FieldOrder[i]))
                   ELSE <<>>) \o fields(i + 1)
       IN  fields(1)
  ELSE IF node.t = "array" /\ node.a # <<>>
  THEN LET RECURSIVE elems(_)
           elems(i) ==
             IF i > Len(node.a) THEN <<>>
             ELSE process(node.a[i], Append(parts, Itoa(i - 1))) \o elems(i + 1)
       IN  elems(1)
  ELSE <<[path |-> parts, raw |-> node]>>

\* valueAt: the raw value and whether there is an error
RECURSIVE valueAt(_, _)
valueAt(node, parts) ==
  IF parts = <<>> THEN [raw |-> node, err |-> FALSE]
  ELSE IF node.t = "object"
  THEN IF parts[1] \in DOMAIN node.m THEN valueAt(node.m[parts[1]], Tail(parts))
       ELSE [raw |-> Null, err |-> TRUE]
  ELSE IF node.t = "array"
  THEN IF \E i \in DOMAIN node.a : Itoa(i - 1) = parts[1]
       THEN valueAt(node.a[CHOOSE i \in DOMAIN node.a : Itoa(i - 1) = parts[1]], Tail(parts))
       ELSE [raw |-> Null, err |-> TRUE]
  ELSE [raw |-> Null, err |-> TRUE]

\* (*Value).Equals: reflect.DeepEqual of the raw values
Equals(v, to) == v.raw = to.raw

\* (*Diff).compare: d.paths
compare(first, second) ==
  LET fp == process(first, <<>>)
      sp == process(second, <<>>)
      firstPaths == {fp[i].path : i \in DOMAIN fp}
      RECURSIVE firstProcessor(_)
      firstProcessor(i) ==
        IF i > Len(fp) THEN <<>>
        ELSE (IF ~Equals(fp[i], valueAt(second, fp[i].path)) THEN <<fp[i].path>> ELSE <<>>)
               \o firstProcessor(i + 1)
      RECURSIVE secondProcessor(_)
      secondProcessor(i) ==
        IF i > Len(sp) THEN <<>>
        ELSE (IF sp[i].path \in firstPaths THEN <<>> ELSE <<sp[i].path>>)
               \o secondProcessor(i + 1)
  IN  firstProcessor(1) \o secondProcessor(1)

InitGjp ==
  /\ SmlIdle
  /\ mt = [on |-> FALSE]
  /\ scr = [on |-> FALSE]
  /\ dj = [on |-> FALSE]
  /\ \E first \in Roots(MaxNest) \cup Nested, second \in Roots(MaxNest) \cup Nested :
       gjp = [on |-> TRUE, first |-> first, second |-> second, compared |-> FALSE,
              paths |-> <<>>]

\* Compare and CompareDocuments
Compare ==
  /\ gjp.on
  /\ ~gjp.compared
  /\ gjp' = [gjp EXCEPT !.compared = TRUE, !.paths = compare(gjp.first, gjp.second)]
  /\ UNCHANGED <<smlVars, etc, mt, scr, dj>>

NextGjp == Compare

SpecGjp == InitGjp /\ [][NextGjp]_vars

----------------------------------------------------------------------------
(* What the claims speak of.                                               *)

Accepted(e)  == e.err = NilErr
IsContent(e) == e.op \in {"TextNode", "RawNode", "CommentNode"}

\* the number of tags that the first k calls of evs left open
DepthAfter(evs, k) ==
  Cardinality({j \in 1..k : evs[j].op = "BeginTagNode" /\ Accepted(evs[j])})
  - Cardinality({j \in 1..k : evs[j].op = "EndTagNode" /\ Accepted(evs[j])})

\* a tag was begun before call k of evs
BegunBefore(evs, k) ==
  \E j \in 1..(k-1) : evs[j].op = "BeginTagNode" /\ Accepted(evs[j])

\* the outermost tag was closed before call k of evs
CompletedBefore(evs, k) ==
  \E j \in 1..(k-1) :
    evs[j].op = "EndTagNode" /\ Accepted(evs[j]) /\ DepthAfter(evs, j-1) = 1

\* the tag grammar of the design, on a raw tag
TagGrammar(raw) ==
  /\ \A i \in DOMAIN Split(raw) : ValidSegment(Split(raw)[i])
  /\ Len(raw) > 0
  /\ raw[1] \in Lower

Done   == phase \in {"read", "reread"} /\ ret = NilErr
Failed == phase \in {"read", "reread"} /\ ret # NoRet /\ ret # NilErr

----------------------------------------------------------------------------
\* C1: a document that ReadSML accepts with a NodeBuilder, written by WriteSML
\* with the standard SML writer and read again, gives a tree equal to the
\* first one.
RoundTrip ==
  (phase = "reread" /\ ret # NoRet)
    => (ret = NilErr /\ Root(nb).ok /\ Root(nb).node = root1)

----------------------------------------------------------------------------
\* The source text of a builder call.
SourceOf(e) ==
  CASE e.op = "BeginTagNode" -> <<chOpen>> \o e.arg
    [] e.op = "EndTagNode"   -> <<chClose>>
    [] e.op = "TextNode"     -> EscapeText(e.arg)
    [] e.op = "RawNode"      -> <<chOpen, chExclamation>> \o e.arg \o <<chExclamation, chClose>>
    [] e.op = "CommentNode"  -> <<chOpen, chHash>> \o e.arg \o <<chHash, chClose>>

\* The position in s that is reached when the calls evs are laid over s from
\* position p on, each call over its source text and a tag over the one white
\* space after it; -1 if s reads differently.
RECURSIVE Covers(_, _, _)
Covers(evs, s, p) ==
  IF p < 0 THEN -1
  ELSE IF evs = <<>> THEN p
  ELSE LET e    == Head(evs)
           q    == p + Len(SourceOf(e))
           fits == q <= Len(s) /\ SubSeq(s, p + 1, q) = SourceOf(e)
           sep  == e.op = "BeginTagNode" /\ q < Len(s) /\ s[q + 1] \in Space
       IN  IF ~fits THEN -1
           ELSE Covers(Tail(evs), s, IF sep THEN q + 1 ELSE q)

FirstOpen(s) == CHOOSE k \in DOMAIN s : s[k] = chOpen /\ \A j \in 1..(k-1) : s[j] # chOpen

\* C2: the builder calls of an accepted document are its pre-order traversal
\* and are well nested: no content and no end outside an open tag, the root is
\* closed by the last call and by no earlier one, and the calls, in their
\* order, spell the document from its first brace to the last rune read.
PreOrderEvents ==
  /\ \A k \in DOMAIN events :
       (phase \in {"read", "reread"} /\ events[k].op # "BeginTagNode")
         => DepthAfter(events, k - 1) >= 1
  /\ Done =>
       /\ events # <<>>
       /\ events[1].op = "BeginTagNode"
       /\ events[Len(events)].op = "EndTagNode"
       /\ DepthAfter(events, Len(events)) = 0
       /\ \A k \in 1..(Len(events) - 1) : DepthAfter(events, k) >= 1
       /\ \A k \in DOMAIN events : Accepted(events[k])
       /\ Covers(events, src, FirstOpen(src) - 1) = pos

PreOrderEventsWitness ==
  /\ Done
  /\ phase = "read"
  /\ \E k \in 2..Len(events) : \E m \in (k+2)..Len(events) :
       events[k].op = "BeginTagNode" /\ IsContent(events[m])

----------------------------------------------------------------------------
\* C3: a NodeBuilder rejects a content call made before a tag was begun and
\* every call made after the outermost tag was closed.
NodeBuilderDiscipline ==
  (bk = "node" /\ phase = "api") =>
    \A k \in DOMAIN events :
      /\ (IsContent(events[k]) /\ ~BegunBefore(events, k)) => ~Accepted(events[k])
      /\ CompletedBefore(events, k) => ~Accepted(events[k])

NodeBuilderDisciplineWitness ==
  /\ bk = "node"
  /\ phase = "api"
  /\ \E k \in DOMAIN events : IsContent(events[k]) /\ ~BegunBefore(events, k)
  /\ \E k \in DOMAIN events : CompletedBefore(events, k) /\ events[k].op = "BeginTagNode"
  /\ \E k \in DOMAIN events : CompletedBefore(events, k) /\ IsContent(events[k])

----------------------------------------------------------------------------
\* C4: a KeyStringValueTreeBuilder rejects with an error (no nil, no panic) a
\* content call or an end made before a tag was begun and every call made
\* after the outermost tag was closed.
TreeBuilderDiscipline ==
  (bk = "kv" /\ phase \in {"api", "crashed"}) =>
    \A k \in DOMAIN events :
      /\ (events[k].op # "BeginTagNode" /\ ~BegunBefore(events, k))
           => (~Accepted(events[k]) /\ events[k].err # ErrPanic)
      /\ CompletedBefore(events, k)
           => (~Accepted(events[k]) /\ events[k].err # ErrPanic)

----------------------------------------------------------------------------
FirstBegun(evs) ==
  evs[CHOOSE k \in DOMAIN evs :
        /\ evs[k].op = "BeginTagNode" /\ Accepted(evs[k])
        /\ ~BegunBefore(evs, k)]

\* C5: Root() fails with "building is not yet done" until the outermost tag
\* was closed; from then on every call of Root() returns the same node, which
\* is the node of the first tag that was begun, whatever calls were rejected
\* in between.
RootOnceDone ==
  (bk = "node" /\ phase = "api") =>
    /\ Root(nb).ok <=> CompletedBefore(events, Len(events) + 1)
    /\ \A i \in DOMAIN rootRes :
         /\ rootRes[i].res.ok <=> CompletedBefore(events, rootRes[i].after + 1)
         /\ ~rootRes[i].res.ok => rootRes[i].res.err = Err("building is not yet done")
         /\ rootRes[i].res.ok =>
              /\ rootRes[i].res.err = NilErr
              /\ rootRes[i].res.node = Root(nb).node
              /\ rootRes[i].res.node.tag = Split(FirstBegun(events).arg)

RootOnceDoneWitness ==
  /\ bk = "node"
  /\ phase = "api"
  /\ \E i, j \in DOMAIN rootRes :
       /\ rootRes[i].res.ok
       /\ rootRes[j].res.ok
       /\ rootRes[i].after < rootRes[j].after
  /\ \E i \in DOMAIN rootRes : ~rootRes[i].res.ok

----------------------------------------------------------------------------
\* C6: the first error ends the reading: a builder call that returned an error
\* is the last call and its error is what ReadSML returns, after an error no
\* procedure of the parser is active, and the NodeBuilder has no root.
FirstErrorAborts ==
  /\ phase \in {"read", "reread"} =>
       \A k \in DOMAIN events :
         ~Accepted(events[k]) => (k = Len(events) /\ ret = events[k].err)
  /\ Failed => (calls = <<>> /\ (bk = "node" => ~Root(nb).ok))

FirstErrorAbortsWitness ==
  /\ Failed
  /\ bk = "node"
  /\ Len(events) >= 2
  /\ ~Accepted(events[Len(events)])

----------------------------------------------------------------------------
\* C7: every tag that ReadSML hands to BeginTagNode has passed the validator,
\* so a document that is accepted, with whichever builder, has valid tags only.
TagsValidated ==
  (phase = "read" /\ ret = NilErr) =>
    \A k \in DOMAIN events :
      events[k].op = "BeginTagNode" => ValidateTag(events[k].arg).err = NilErr

----------------------------------------------------------------------------
----------------------------------------------------------------------------
\* C9: only a-z, 0-9, hyphen and colon are tag characters: the tag that
\* readTag collects holds no other rune, and a capital letter ends readTag
\* with "invalid tag character".
TagRunesOnly ==
  phase \in {"read", "reread"} =>
    \A i \in DOMAIN calls :
      calls[i].fn = "readTag" =>
        \A j \in DOMAIN calls[i].buf : calls[i].buf[j] \in Lower \cup Digit \cup {"-", ":"}

----------------------------------------------------------------------------
----------------------------------------------------------------------------
\* the message of the design for an input that ends in procedure fn
EndMessage(fn) ==
  CASE fn = "readPreliminary"   -> "unexpected end of file while reading preliminary"
    [] fn = "readTag"           -> "unexpected end of file while reading a tag"
    [] fn = "readTagChildren"   -> "unexpected end of file while reading children"
    [] fn = "readBracedContent" -> "unexpected end of file while reading a tag or raw node"
    [] fn = "readRawNode"       -> "unexpected end of file while reading a raw node"
    [] fn = "readCommentNode"   -> "unexpected end of file while reading a comment node"
    [] fn = "readTextNode"      -> "unexpected end of file while reading a text node"

\* C11: when the input ends before the document is complete, ReadSML returns
\* the error "unexpected end of file while reading ..." that names the
\* procedure which met the end, also for an input without any opening brace.
EndNamesPhase ==
  [][(phase = "read" /\ calls # <<>> /\ ~open /\ pos = Len(src))
       => (calls' = <<>> /\ ret' = Err(EndMessage(Top.fn)))]_vars

----------------------------------------------------------------------------
\* C12: for the input {root ReadSML fails with the error of the phase
\* children at the position of the end of the input.
RootUnterminated ==
  (phase = "read" /\ ~open /\ src = DocRoot /\ ret # NoRet)
    => ret = ErrAt(EndMessage("readTagChildren"), Len(DocRoot))

----------------------------------------------------------------------------
----------------------------------------------------------------------------
EvOk(op, arg) == [op |-> op, arg |-> arg, err |-> NilErr]

\* What the design says of the text that begins at rune k of the document b:
\* it ends before the first brace that is not escaped (kind "end", at that
\* brace), or it has an escape before a rune that cannot be escaped (kind
\* "bad", at that rune), or the document ends in it (kind "cut").
RECURSIVE TextFrom(_, _, _)
TextFrom(b, k, acc) ==
  IF k > Len(b) THEN [kind |-> "cut", text |-> acc, at |-> k]
  ELSE IF b[k] \in {chOpen, chClose} THEN [kind |-> "end", text |-> acc, at |-> k]
  ELSE IF b[k] # chEscape THEN TextFrom(b, k + 1, Append(acc, b[k]))
  ELSE IF k + 1 > Len(b) THEN [kind |-> "cut", text |-> acc, at |-> k + 1]
  ELSE IF b[k + 1] \in {chEscape, chOpen, chClose}
       THEN TextFrom(b, k + 2, Append(acc, b[k + 1]))
  ELSE [kind |-> "bad", text |-> acc, at |-> k + 1]

\* the document is a tag a with a text as its first child
TextFirst ==
  /\ ~open
  /\ Len(src) >= 4
  /\ SubSeq(src, 1, 3) = <<"{", "a", " ">>
  /\ src[4] \notin {chOpen, chClose}

\* C14: in a text node ^^, ^{ and ^} stand for ^, { and }; an escape before
\* any other rune ends the parse with an error at that rune; a brace that is
\* not escaped ends the text and is read by the caller: the closing one closes
\* the tag, the opening one begins a braced content.  {root Text A} has the
\* one text child "Text A", {root ^{hello^}} the one text child "{hello}".
TextDecoded ==
  (phase = "read" /\ ret # NoRet) =>
    /\ TextFirst =>
         LET t == TextFrom(src, 4, <<>>)
         IN  /\ t.kind = "bad" =>
                  /\ ret = ErrAt("invalid character after escaping at index", t.at - 1)
                  /\ events = <<EvOk("BeginTagNode", <<"a">>)>>
             /\ (t.kind = "end" /\ src[t.at] = chClose) =>
                  /\ ret = NilErr
                  /\ events = <<EvOk("BeginTagNode", <<"a">>), EvOk("TextNode", t.text),
                                EvOk("EndTagNode", <<>>)>>
                  /\ pos = t.at
             /\ (t.kind = "end" /\ src[t.at] = chOpen /\ t.at < Len(src)
                   /\ src[t.at + 1] = chClose) =>
                  /\ ret = ErrAt("invalid character after opening at index", t.at)
                  /\ events = <<EvOk("BeginTagNode", <<"a">>), EvOk("TextNode", t.text)>>
    /\ (~open /\ src = DocTextA) =>
         /\ ret = NilErr
         /\ events = <<EvOk("BeginTagNode", <<"r", "o", "o", "t">>),
                       EvOk("TextNode", <<"T", "e", "x", "t", " ", "A">>),
                       EvOk("EndTagNode", <<>>)>>
         /\ bk = "node" =>
              Root(nb).node.children = <<TextNodeOf(<<"T", "e", "x", "t", " ", "A">>)>>
    /\ (~open /\ src = DocHello) =>
         /\ ret = NilErr
         /\ events = <<EvOk("BeginTagNode", <<"r", "o", "o", "t">>),
                       EvOk("TextNode", <<"{", "h", "e", "l", "l", "o", "}">>),
                       EvOk("EndTagNode", <<>>)>>
         /\ bk = "node" =>
              Root(nb).node.children = <<TextNodeOf(<<"{", "h", "e", "l", "l", "o", "}">>)>>

TextDecodedWitness ==
  /\ Done
  /\ ~open
  /\ src = DocHello
  /\ bk = "node"
  /\ Len(Root(nb).node.children) = 1

----------------------------------------------------------------------------
\* the document is a tag a around one block that opens with the rune x after
\* the brace and ends with x and a brace; BlockContent is what is in between
IsBlockDoc(x) ==
  /\ ~open
  /\ Len(src) >= 8
  /\ SubSeq(src, 1, 5) = <<"{", "a", " ", chOpen, x>>
  /\ SubSeq(src, Len(src) - 2, Len(src)) = <<x, chClose, chClose>>

BlockContent == SubSeq(src, 6, Len(src) - 3)

\* C15: a raw block hands the runes between {! and !} to the builder as they
\* are, escapes, braces and white space included, and the node keeps them:
\* {root {! raw <code> !}} has the one raw child " raw <code> ".
RawVerbatim ==
  (phase = "read" /\ ret # NoRet) =>
    /\ (IsBlockDoc(chExclamation) /\ \A i \in DOMAIN BlockContent :
                                       BlockContent[i] # chExclamation) =>
         /\ ret = NilErr
         /\ events = <<EvOk("BeginTagNode", <<"a">>), EvOk("RawNode", BlockContent),
                       EvOk("EndTagNode", <<>>)>>
         /\ bk = "node" => Root(nb).node.children = <<RawNodeOf(BlockContent)>>
    /\ (~open /\ src = DocRawCode) =>
         LET raw == <<" ", "r", "a", "w", " ", "<", "c", "o", "d", "e", ">", " ">>
         IN  /\ ret = NilErr
             /\ events = <<EvOk("BeginTagNode", <<"r", "o", "o", "t">>),
                           EvOk("RawNode", raw), EvOk("EndTagNode", <<>>)>>
             /\ bk = "node" => Root(nb).node.children = <<RawNodeOf(raw)>>

RawVerbatimWitness ==
  /\ Done
  /\ bk = "node"
  /\ IsBlockDoc(chExclamation)
  /\ BlockContent = <<" ", chEscape, chOpen>>
  /\ Root(nb).node.children = <<RawNodeOf(BlockContent)>>

----------------------------------------------------------------------------
\* c holds the terminator of the block that opens with x
HasTerminator(c, x) == \E i \in 1..(Len(c) - 1) : c[i] = x /\ c[i + 1] = chClose

\* C16: a raw block ends at its first !} and a comment at its first #}; an
\* '!' or '#' that no closing brace follows is content: the block around a
\* content c without the terminator gives c, also when c ends in '!' or '#'.
TerminatorFirst ==
  (phase = "read" /\ ret # NoRet) =>
    /\ (IsBlockDoc(chExclamation) /\ ~HasTerminator(BlockContent, chExclamation)) =>
         /\ ret = NilErr
         /\ events = <<EvOk("BeginTagNode", <<"a">>), EvOk("RawNode", BlockContent),
                       EvOk("EndTagNode", <<>>)>>
    /\ (IsBlockDoc(chHash) /\ ~HasTerminator(BlockContent, chHash)) =>
         /\ ret = NilErr
         /\ events = <<EvOk("BeginTagNode", <<"a">>), EvOk("CommentNode", BlockContent),
                       EvOk("EndTagNode", <<>>)>>

----------------------------------------------------------------------------
\* The calls the design expects for the node n below the processor p: a tag
\* whose first part has a registered processor goes, with all that is in it,
\* to that processor, every other node to the processor of what encloses it.
RECURSIVE Expected(_, _, _), ExpectedAll(_, _, _)
Expected(n, p, plugins) ==
  IF n.kind = "tag"
  THEN LET q == IF n.tag[1] \in DOMAIN plugins THEN plugins[n.tag[1]] ELSE p
       IN  <<Sent("OpenTag", q)>> \o ExpectedAll(n.children, q, plugins)
             \o <<Sent("CloseTag", q)>>
  ELSE <<Sent(CASE n.kind = "text" -> "Text" [] n.kind = "raw" -> "Raw"
                [] n.kind = "comment" -> "Comment", p)>>
ExpectedAll(ns, p, plugins) ==
  IF ns = <<>> THEN <<>>
  ELSE Expected(Head(ns), p, plugins) \o ExpectedAll(Tail(ns), p, plugins)

IsPrefix(a, b) == Len(a) <= Len(b) /\ a = SubSeq(b, 1, Len(a))

\* C17: every call for a node in the subtree of a tag with a registered
\* processor goes to the processor of the nearest such tag around it, and to
\* the root processor if there is none, also after a nested tag was closed;
\* the open and the close of a tag go to the same processor.
SubtreeDispatch ==
  phase = "write" => IsPrefix(wr.sent, Expected(root1, wr.plugins[<<>>], wr.plugins))

----------------------------------------------------------------------------
\* The tree n up to white space: every text, raw text and comment without the
\* white space around it, and no text that is white space only.
RECURSIVE Normal(_)
Normal(n) ==
  IF n.kind # "tag" THEN [n EXCEPT !.text = TrimSpace(@)]
  ELSE [n EXCEPT !.children =
          SelectSeq([i \in DOMAIN n.children |-> Normal(n.children[i])],
                    LAMBDA c : ~(c.kind = "text" /\ c.text = <<>>))]

\* C18: the pretty-printed and the compact output of the standard SML writer
\* for the same tree are both read without error and give equal trees, here
\* compared up to the white space around the texts.
PrettyCompactEqual ==
  (phase = "reread" /\ ret # NoRet /\ rootRes # <<>>) =>
    /\ rootRes[1].res.ok
    /\ ret = NilErr
    /\ Normal(Root(nb).node) = Normal(rootRes[1].res.node)

----------------------------------------------------------------------------
\* C19: two contexts with different sinks share nothing: whatever the order
\* in which they and their processors were created, registered and used, the
\* sink of a context holds exactly what the WriteSML call on it has written.
OwnSink ==
  phase = "ctx" => \A c \in Ctxs : ws.sink[c] = ws.emitted[c]

----------------------------------------------------------------------------
\* C20: with a KeyStringValueTreeBuilder a text or a raw text fails with "node
\* has multiple values" exactly when the node of the current tag path has a
\* value and the new text is more than white space; a text of white space
\* only is accepted and leaves the builder as it is.
OneValue ==
  [][(phase = "read" /\ bk = "kv" /\ Len(events') = Len(events) + 1
        /\ events'[Len(events')].op \in {"TextNode", "RawNode"})
       => LET e   == events'[Len(events')]
              had == tb.stack \in DOMAIN tb.tree /\ tb.tree[tb.stack] # <<>>
              new == TrimSpace(e.arg) # <<>>
          IN  /\ (e.err = Err("node has multiple values")) <=> (had /\ new)
              /\ ~new => (e.err = NilErr /\ tb' = tb)]_vars

----------------------------------------------------------------------------
\* C21: when a document whose root is closed (ReadSML of the document alone
\* returns nil or the error of a builder call) stands between other text,
\* ReadSML of the whole returns the same, makes the same builder calls, leaves
\* the builder in the same state and takes no rune after the closing brace of
\* the root.
RootClosed ==
  \/ ret = NilErr
  \/ ret # NoRet /\ events # <<>> /\ events[Len(events)].err = ret

----------------------------------------------------------------------------
\* C22: when a configuration that Read accepted is written, pretty or not,
\* and the output is read, the reading succeeds and the configuration read has
\* at every path the value of the configuration written.
ConfigRoundTrip ==
  Len(etc.cfgs) = 2
    => /\ etc.cfgs[2].err = NilErr
       /\ \A p \in DOMAIN etc.cfgs[1].values :
            /\ p \in DOMAIN etc.cfgs[2].values
            /\ etc.cfgs[2].values[p] = etc.cfgs[1].values[p]

----------------------------------------------------------------------------
----------------------------------------------------------------------------
\* C24: after Read every template of a value, a '[' with its next ']' and
\* something between, is replaced: by the value at the path it names or, when
\* there is none, by the default; for a source $NAME by the environment
\* variable NAME or, when it is not set, by the default; a template without
\* default and without a value for its source stays; the text around the
\* templates stays.
RECURSIVE Expanded(_, _, _)
Expanded(tree, env, v) ==
  LET m == FindStringShortest(v)
  IN  IF m = <<0, 0>> THEN v
      ELSE LET found == SubSeq(v, m[1], m[2])
               sd    == SplitN2(SubSeq(found, 2, Len(found) - 1))
               dv    == IF Len(sd) > 1 THEN sd[2] ELSE found
               sub   == IF sd[1] # <<>> /\ sd[1][1] = "$"
                        THEN (IF Tail(sd[1]) \in DOMAIN env THEN env[Tail(sd[1])] ELSE dv)
                        ELSE IF makeFullPath(sd[1]) \in DOMAIN tree
                             THEN tree[makeFullPath(sd[1])] ELSE dv
           IN  SubSeq(v, 1, m[1] - 1) \o sub
                 \o Expanded(tree, env, SubSeq(v, m[2] + 1, Len(v)))

TemplatesReplaced ==
  (phase = "etc" /\ Len(etc.cfgs) = 1 /\ etc.cfgs[1].err = NilErr)
    => \A p \in DOMAIN tb.tree :
         etc.cfgs[1].values[p] = Expanded(tb.tree, etc.env, tb.tree[p])

\* the same for the values with one pair of brackets
OneTemplateReplaced ==
  (phase = "etc" /\ Len(etc.cfgs) = 1 /\ etc.cfgs[1].err = NilErr)
    => \A p \in DOMAIN tb.tree :
         Cardinality({i \in DOMAIN tb.tree[p] : tb.tree[p][i] = "["}) <= 1
           => etc.cfgs[1].values[p] = Expanded(tb.tree, etc.env, tb.tree[p])

----------------------------------------------------------------------------
\* C25: Matches returns true or false for every pattern and value, and for a
\* pattern whose groups are closed and whose backslashes have a rune behind
\* them the result is true exactly when the whole value matches the pattern:
\* ? one rune, * any runes, [..] one rune of the group, [^..] one rune not of
\* the group, a-z in a group the runes of the range, a backslash the next rune
\* itself; with ignoreCase pattern and value in lower case.
RECURSIVE GroupEnd(_, _)
GroupEnd(p, i) ==
  IF i > Len(p) THEN 0
  ELSE IF p[i] = "\\" THEN GroupEnd(p, i + 2)
  ELSE IF p[i] = "]" THEN i
  ELSE GroupEnd(p, i + 1)

GroupFrom(p) == IF Len(p) >= 2 /\ p[2] = "^" THEN 3 ELSE 2

RECURSIVE InGroup(_, _)
InGroup(g, c) ==
  IF g = <<>> THEN FALSE
  ELSE IF g[1] = "\\" /\ Len(g) >= 2 THEN c = g[2] \/ InGroup(SubSeq(g, 3, Len(g)), c)
  ELSE IF Len(g) >= 3 /\ g[2] = "-"
       THEN \/ Code(c) >= Code(g[1]) /\ Code(c) <= Code(g[3])
            \/ Code(c) >= Code(g[3]) /\ Code(c) <= Code(g[1])
            \/ InGroup(SubSeq(g, 4, Len(g)), c)
  ELSE c = g[1] \/ InGroup(Tail(g), c)

RECURSIVE WellFormed(_)
WellFormed(p) ==
  IF p = <<>> THEN TRUE
  ELSE IF p[1] = "\\" THEN Len(p) >= 2 /\ WellFormed(SubSeq(p, 3, Len(p)))
  ELSE IF p[1] = "["
       THEN LET e == GroupEnd(p, GroupFrom(p))
            IN  e > GroupFrom(p) /\ WellFormed(SubSeq(p, e + 1, Len(p)))
  ELSE WellFormed(Tail(p))

RECURSIVE Glob(_, _)
Glob(p, v) ==
  IF p = <<>> THEN v = <<>>
  ELSE IF p[1] = "*" THEN \E k \in 0..Len(v) : Glob(Tail(p), SubSeq(v, k + 1, Len(v)))
  ELSE IF v = <<>> THEN FALSE
  ELSE IF p[1] = "?" THEN Glob(Tail(p), Tail(v))
  ELSE IF p[1] = "\\" THEN v[1] = p[2] /\ Glob(SubSeq(p, 3, Len(p)), Tail(v))
  ELSE IF p[1] = "["
       THEN LET e  == GroupEnd(p, GroupFrom(p))
                in == InGroup(SubSeq(p, GroupFrom(p), e - 1), v[1])
            IN  (IF GroupFrom(p) = 3 THEN ~in ELSE in)
                  /\ Glob(SubSeq(p, e + 1, Len(p)), Tail(v))
  ELSE p[1] = v[1] /\ Glob(Tail(p), Tail(v))

MatchesGlob ==
  (mt.on /\ mt.res # "none")
    => /\ mt.res \in {"true", "false"}
       /\ WellFormed(mt.pattern) =>
            LET p == IF mt.ignoreCase THEN ToLower(mt.pattern) ELSE mt.pattern
                v == IF mt.ignoreCase THEN ToLower(mt.value) ELSE mt.value
            IN  (mt.res = "true") <=> Glob(p, v)

\* the complete lines of a source, each with its delimiter
RECURSIVE CompleteLines(_)
CompleteLines(s) ==
  IF \A i \in DOMAIN s : s[i] # delimiter THEN <<>>
  ELSE LET i == CHOOSE k \in DOMAIN s :
                  s[k] = delimiter /\ \A j \in 1..(k - 1) : s[j] # delimiter
       IN  <<SubSeq(s, 1, i)>> \o CompleteLines(SubSeq(s, i + 1, Len(s)))

\* the complete lines of a source that pass the filter
MatchingLines(filter, s) ==
  LET ls == CompleteLines(s)
      RECURSIVE pick(_)
      pick(k) == IF k > Len(ls) THEN <<>>
                 ELSE (IF isValid(filter, ls[k]) THEN <<ls[k]>> ELSE <<>>) \o pick(k + 1)
  IN  pick(1)

\* C26: what the scroller has written to its target is a run of complete
\* lines of the source that pass the filter, in the order of the source and
\* each once; a last line without delimiter is not part of it.
WholeLines ==
  scr.on =>
    LET ls == MatchingLines(scr.filter, scr.source)
    IN  \E i \in 1..(Len(ls) + 1) : \E j \in (i - 1)..Len(ls) :
          scr.target = Concat(SubSeq(ls, i, j))

\* C26 for a scroller that found the end of a line where it started
WholeLinesFromLineStart ==
  (scr.on /\ scr.start >= 0
     /\ (scr.start = 0 \/ scr.initial[scr.start] = delimiter)) =>
    LET ls == MatchingLines(scr.filter, scr.source)
    IN  \E i \in 1..(Len(ls) + 1) : \E j \in (i - 1)..Len(ls) :
          scr.target = Concat(SubSeq(ls, i, j))

\* where reading starts by the words of Skip: at the n-th last complete line
\* that passes the filter, at the beginning when there are fewer, at the end
\* for n = 0
RECURSIVE LineStart(_, _, _, _, _)
LineStart(source, ls, k, n, filter) ==
  IF k = 0 THEN 0
  ELSE LET at == Len(Concat(SubSeq(ls, 1, k - 1)))
           m  == IF isValid(filter, ls[k]) THEN n - 1 ELSE n
       IN  IF m = 0 THEN at ELSE LineStart(source, ls, k - 1, m, filter)

StartOf(source, n, filter) ==
  IF n = 0 THEN Len(source)
  ELSE LET ls == CompleteLines(source)
       IN  LineStart(source, ls, Len(ls), n, filter)

\* the last n of a sequence, all of it when it is shorter
LastOf(ls, n) == IF Len(ls) <= n THEN ls ELSE SubSeq(ls, Len(ls) - n + 1, Len(ls))

\* C27: skipInitial leaves the source at the beginning of the n-th last
\* complete line that passes the filter, at the beginning of the source when
\* there are fewer such lines, and at its end for Skip(0); so what is written
\* begins with the last n matching lines of the source as it was, or is still
\* a part of them.
SkipStart ==
  (scr.on /\ scr.pc # "skipInitial") =>
    /\ scr.start = StartOf(scr.initial, scr.skip, scr.filter)
    /\ LET first == Concat(LastOf(MatchingLines(scr.filter, scr.initial), scr.skip))
           n     == Len(scr.target)
       IN  IF n >= Len(first) THEN SubSeq(scr.target, 1, Len(first)) = first
           ELSE scr.target = SubSeq(first, 1, n)

\* a scroller with Skip(1) and a filter, over a source whose last complete
\* line does not pass and whose last line has no delimiter, started at the
\* second line and has written it
SkipStartWitness ==
  /\ scr.on
  /\ scr.skip = 1
  /\ scr.filter = "a"
  /\ scr.initial = <<"a", delimiter, "a", delimiter, "b", delimiter, "a">>
  /\ scr.start = 2
  /\ scr.target = <<"a", delimiter>>

RECURSIVE Addressed(_, _)
Addressed(data, path) ==
  IF path = <<>> THEN [err |-> "nil", data |-> data]
  ELSE LET k == path[1]
       IN  IF data.t = "object"
           THEN IF k \in DOMAIN data.m THEN Addressed(data.m[k], Tail(path))
                ELSE [err |-> "path does not exist", data |-> Null]
           ELSE IF data.t = "array"
           THEN IF k = <<>> \/ k[1] # "#" THEN [err |-> "no index", data |-> Null]
                ELSE IF Atoi(Tail(k)).ok /\ Atoi(Tail(k)).n \in 0..(Len(data.a) - 1)
                     THEN Addressed(data.a[Atoi(Tail(k)).n + 1], Tail(path))
                     ELSE [err |-> "invalid array index", data |-> Null]
           ELSE [err |-> "path too long", data |-> Null]

\* C29: At returns a Value for every data and every path and does not panic;
\* the Value has the addressed data, or the error "path does not exist" for
\* a key an object does not have, "no index" for a key of an array without
\* leading #, "invalid array index" for an index outside of the array, and
\* "path too long" for keys behind a scalar; the empty path addresses the
\* data itself.
AtTotal ==
  (dj.on /\ dj.at # NoValue) =>
    /\ ~dj.at.panic
    /\ dj.at.err = Addressed(dj.v.data, dj.keys).err
    /\ dj.at.err = "nil" => dj.at.data = Addressed(dj.v.data, dj.keys).data

\* C29 for the keys that are not empty and whose index, if they have a
\* leading #, is a number
AtTotalForNumbers ==
  (dj.on /\ dj.at # NoValue
     /\ \A i \in DOMAIN dj.keys :
          /\ dj.keys[i] # <<>>
          /\ dj.keys[i][1] = "#" => Atoi(Tail(dj.keys[i])).ok) =>
    /\ ~dj.at.panic
    /\ dj.at.err = Addressed(dj.v.data, dj.keys).err
    /\ dj.at.err = "nil" => dj.at.data = Addressed(dj.v.data, dj.keys).data

\* whether a document has something at a path, and what
RECURSIVE Has2(_, _)
Has2(node, parts) ==
  IF parts = <<>> THEN TRUE
  ELSE IF node.t = "object"
  THEN parts[1] \in DOMAIN node.m /\ Has2(node.m[parts[1]], Tail(parts))
  ELSE IF node.t = "array"
  THEN \E i \in DOMAIN node.a : Itoa(i - 1) = parts[1] /\ Has2(node.a[i], Tail(parts))
  ELSE FALSE

Differences == {gjp.paths[i] : i \in DOMAIN gjp.paths}

\* the paths of the values of a document
PathsIn(root) == LET ps == process(root, <<>>) IN {ps[i].path : i \in DOMAIN ps}

\* C30: after Compare a path of a value of one of the documents is among
\* the Differences exactly if only one of the documents has it or the two
\* have different values at it; a document compared with itself has no
\* differences.
DifferencesExact ==
  (gjp.on /\ gjp.compared) =>
    /\ \A p \in PathsIn(gjp.first) \cup PathsIn(gjp.second) :
         p \in Differences <=>
           \/ ~Has2(gjp.first, p)
           \/ ~Has2(gjp.second, p)
           \/ valueAt(gjp.first, p).raw # valueAt(gjp.second, p).raw
    /\ Differences \subseteq PathsIn(gjp.first) \cup PathsIn(gjp.second)
    /\ gjp.first = gjp.second => gjp.paths = <<>>

\* C30 for a first document without null
DifferencesExactWithoutNull ==
  (gjp.on /\ gjp.compared
     /\ \A p \in PathsIn(gjp.first) : valueAt(gjp.first, p).raw # Null) =>
    /\ \A p \in PathsIn(gjp.first) \cup PathsIn(gjp.second) :
         p \in Differences <=>
           \/ ~Has2(gjp.first, p)
           \/ ~Has2(gjp.second, p)
           \/ valueAt(gjp.first, p).raw # valueAt(gjp.second, p).raw
    /\ Differences \subseteq PathsIn(gjp.first) \cup PathsIn(gjp.second)
    /\ gjp.first = gjp.second => gjp.paths = <<>>

\* the tags that are open while WriteSML visits the tree, the outermost last:
\* those whose CloseTag is still to come
OpenTags ==
  SelectSeq(wr.agenda, LAMBDA e : e.op = "close")

\* C31: while WriteSML runs, the dispatch stack holds the root processor and
\* one processor for every open tag whose first part has a registered
\* processor: closing a tag that pushed nothing pops nothing.
StackFollowsTags ==
  (phase = "write" /\ wr.stack # <<>>) =>
    Len(wr.stack) =
      1 + Cardinality({i \in DOMAIN OpenTags : OpenTags[i].node.tag[1] \in DOMAIN wr.plugins})

\* what one call of the mlWriter has to put around the output of the
\* processor: its depth is the number of open tags around the node
Before(e, w) ==
  LET depth == IF e.op = "close" THEN Len(OpenTags) - 1 ELSE Len(OpenTags)
  IN  IF w.pretty THEN Repeat(w.indentStr, depth)
      ELSE IF e.op = "close" THEN <<>> ELSE <<" ">>
After(w) == IF w.pretty THEN <<"\n">> ELSE <<>>

Began == \E i \in DOMAIN events : events[i].op = "BeginTagNode" /\ Accepted(events[i])

\* C33, as stated: the stack of the NodeBuilder is empty exactly before the
\* first accepted BeginTagNode and after the final EndTagNode.
StackEmptyAtEnds ==
  (phase = "api" /\ bk = "node") => (nb.stack = <<>> <=> (~Began \/ nb.done))

\* C33, as the code has it: the stack of the NodeBuilder is empty exactly
\* before the first accepted BeginTagNode; the final EndTagNode leaves the
\* root frame on the stack and sets done, so that a done builder has exactly
\* one frame; every other accepted EndTagNode pops the top frame and appends
\* it as the last child of the new top frame.
StackKeepsRoot ==
  /\ []((phase = "api" /\ bk = "node") =>
          /\ nb.stack = <<>> <=> ~Began
          /\ nb.done => Len(nb.stack) = 1)
  /\ [][(phase = "api" /\ bk = "node" /\ Len(events') = Len(events) + 1
           /\ events'[Len(events')].op = "EndTagNode"
           /\ Accepted(events'[Len(events')])) =>
          LET l == Len(nb.stack)
          IN  IF l = 1 THEN nb' = [nb EXCEPT !.done = TRUE]
              ELSE /\ l >= 2
                   /\ ~nb'.done
                   /\ nb'.stack =
                        Append(SubSeq(nb.stack, 1, l - 2),
                               [nb.stack[l - 1] EXCEPT
                                  !.children = Append(@, nb.stack[l])])]_vars

\* a builder is done with a root that has a text and, behind it, a tag that
\* was closed before
StackKeepsRootWitness ==
  /\ phase = "api"
  /\ bk = "node"
  /\ nb.done
  /\ Len(nb.stack) = 1
  /\ Len(nb.stack[1].children) = 2
  /\ nb.stack[1].children[1].kind = "text"
  /\ nb.stack[1].children[2].kind = "tag"

\* a step of the parser that ends with mr.index-- and UnreadRune
PushesBack == phase = "read" /\ calls # <<>> /\ readerVars' # readerVars /\ index' = index

\* C34: a pushback gives back the one character that the same step has read,
\* so the next read delivers it again; the step before a pushback has read a
\* character and kept it, so two pushbacks never follow each other and none
\* comes before the first read.
OnePushback ==
  [][PushesBack =>
       /\ lastRune
       /\ ~lastRune'
       /\ pos' = pos
       /\ pos < Len(src')
       /\ \A o \in readRune' : o.err = NilErr /\ o.r = src'[pos + 1]]_vars

\* the parser has pushed back the closing brace behind a text and stands in
\* readTagChildren again
OnePushbackWitness ==
  /\ phase = "read"
  /\ calls # <<>>
  /\ Top.fn = "readTagChildren"
  /\ ~lastRune
  /\ index >= 0
  /\ pos < Len(src)
  /\ src[pos + 1] = "}"
  /\ events # <<>>
  /\ events[Len(events)].op = "TextNode"

\* C35, as stated: the counter of the reader is the number of characters
\* read from the start of the input, and it never decreases.
IndexCountsReads ==
  /\ [](phase = "read" => index = pos)
  /\ [][phase = "read" => index' >= index]_vars

\* C35, as the code has it: the counter is the zero-based offset of the last
\* character that was read and not pushed back, one less than their number
\* and -1 at the start; a read that meets the end of the input counts as
\* well; from one step of the parser to the next, a pushback taken together
\* with the read before it, the counter never decreases.
IndexIsOffset ==
  /\ [](phase = "read" => index = (IF ret = ErrEOF THEN pos ELSE pos - 1))
  /\ [][phase = "read" => (index' >= index /\ pos' >= pos)]_vars

\* a text was read and its closing brace pushed back: five characters are
\* read, four of them kept, and the counter is 3
IndexIsOffsetWitness ==
  /\ phase = "read"
  /\ calls # <<>>
  /\ Top.fn = "readTagChildren"
  /\ ~lastRune
  /\ pos = 4
  /\ index = 3
  /\ src[5] = "}"

----------------------------------------------------------------------------
\* the calls a NodeBuilder accepted while the tree was built
BuildCalls == SelectSeq(events, Accepted)

\* the processor method that replays the builder method op
Replays(op) ==
  CASE op = "BeginTagNode" -> "OpenTag"
    [] op = "EndTagNode"   -> "CloseTag"
    [] op = "TextNode"     -> "Text"
    [] op = "RawNode"      -> "Raw"
    [] op = "CommentNode"  -> "Comment"

\* the call that the writer w delivers next and the builder call e are the
\* same event: the same method with the same tag or the same content
SameEvent(w, op, e) ==
  LET n == w.agenda[1].node
  IN  /\ op = Replays(e.op)
      /\ e.op = "BeginTagNode" => n.tag = ValidateTag(e.arg).tag
      /\ IsContent(e) => n.text = e.arg

\* the step delivers the k-th event of the build as its k-th call
ReplayStep ==
  (phase = "write" /\ phase' = "write" /\ wr'.sent # wr.sent) =>
    LET k == Len(wr'.sent)
    IN  /\ k = Len(wr.sent) + 1
        /\ k <= Len(BuildCalls)
        /\ SameEvent(wr, wr'.sent[k].op, BuildCalls[k])

\* C36: WriteSML replays the building of a tree a NodeBuilder completed: the
\* k-th call the processor receives is the k-th accepted builder call (OpenTag
\* for BeginTagNode with its tag, CloseTag for EndTagNode, Text, Raw and
\* Comment with the content given), and when the traversal is over the
\* processor has received as many calls as the builder accepted.
WritingReplaysBuilding ==
  /\ [][ReplayStep]_vars
  /\ []((phase = "write" /\ wr.agenda = <<>>) => Len(wr.sent) = Len(BuildCalls))

\* a traversal is over that delivered a nested tag and then a content node
WritingReplaysBuildingWitness ==
  /\ phase = "write" /\ wr.agenda = <<>>
  /\ \E i \in DOMAIN wr.sent :
       /\ i > 3
       /\ wr.sent[i].op \in {"Text", "Raw", "Comment"}
       /\ wr.sent[i-1].op = "CloseTag"

----------------------------------------------------------------------------
\* the log holds a call of method op that returned an error
Rejected(op) == \E i \in DOMAIN events : events[i].op = op /\ ~Accepted(events[i])

\* the step is a call of a NodeBuilder method and the call returns an error
FailedCall ==
  /\ bk = "node"
  /\ Len(events') = Len(events) + 1
  /\ ~Accepted(events'[Len(events')])

\* C37: a NodeBuilder call that returns an error (BeginTagNode with an
\* invalid tag, EndTagNode or a content call with no open tag, any call after
\* the completion) leaves the builder as it was: the same stack of frames
\* with the same children, the same done flag.
FailedCallKeepsBuilder == [][FailedCall => nb' = nb]_vars

\* a completed builder that has rejected a call of each kind, the last one
\* after the completion
FailedCallKeepsBuilderWitness ==
  /\ bk = "node" /\ nb.done
  /\ Rejected("BeginTagNode") /\ Rejected("EndTagNode") /\ Rejected("TextNode")
  /\ events # <<>> /\ ~Accepted(events[Len(events)])
  /\ \E i \in DOMAIN events :
       /\ events[i].op = "BeginTagNode" /\ ~Accepted(events[i])
       /\ \E j \in 1..(i-1) : events[j].op = "BeginTagNode" /\ Accepted(events[j])

----------------------------------------------------------------------------
\* C38: during a traversal of WriteSML the stack of processors is never
\* empty and its bottom is the processor registered under the empty key, so
\* that the active processor, the top of the stack, always exists.
RootStaysBelow ==
  phase = "write" =>
    /\ wr.stack # <<>>
    /\ wr.stack[1] = wr.plugins[<<>>]
    /\ activePlugin(wr) \in {wr.plugins[k] : k \in DOMAIN wr.plugins}

\* a traversal is over in which a registered processor was pushed and popped
\* and a tag without processor was closed on the root processor alone
RootStaysBelowWitness ==
  /\ phase = "write" /\ wr.agenda = <<>>
  /\ wr.stack = <<wr.plugins[<<>>]>>
  /\ \E i \in DOMAIN wr.sent : wr.sent[i].op = "CloseTag" /\ wr.sent[i].proc = "li"
  /\ \E i \in DOMAIN wr.sent :
       /\ wr.sent[i].op = "CloseTag" /\ wr.sent[i].proc = wr.plugins[<<>>]
       /\ i < Len(wr.sent)

----------------------------------------------------------------------------
\* ReadSML runs in the goroutine of its caller, which is scheduled as long as
\* it can take a step
SpecDocFair == InitDoc /\ [][NextDoc]_vars /\ WF_vars(NextDoc)

\* what is left to do for the parser: two for every rune not yet consumed,
\* one more while the last rune can still be pushed back
Remaining == 2 * (Len(src) - pos) + (IF lastRune THEN 1 ELSE 0)

\* ReadSML has returned, with nil or with an error
Returned == calls = <<>> /\ ret # NoRet

\* a step of the parser: it returns from ReadSML or it has less left to do
Progress ==
  (phase = "read" /\ calls # <<>>) =>
    \/ calls' = <<>> /\ ret' # NoRet
    \/ Remaining' < Remaining /\ Remaining' >= 0 /\ src' = src

\* C39: ReadSML terminates on every finite input. Every step of a parser
\* procedure consumes a rune, or pushes back the rune it has read after a
\* step that consumed one, or returns from ReadSML; so what is left of the
\* input shrinks with every step and ReadSML returns, with nil or an error.
ReadTerminates == [][Progress]_vars /\ <>Returned

\* ReadSML has returned nil for a document with a text and a nested tag, which
\* the parser reads with the pushbacks of readTagChildren, readBracedContent
\* and readTextNode
ReadTerminatesWitness ==
  /\ phase = "read" /\ calls = <<>> /\ ret = NilErr
  /\ pos = Len(src)
  /\ \E i, j \in DOMAIN events :
       /\ events[i].op = "TextNode"
       /\ events[j].op = "BeginTagNode" /\ j > 1

----------------------------------------------------------------------------
\* A scroller whose backend is scheduled and whose timer fires, over a source
\* that grows while it is polled; writing to the target may fail.
InitPoll ==
  /\ ScrollIdle
  /\ \E source \in {<<>>, <<"a">>, <<"b", delimiter>>, <<"b", delimiter, "a">>,
                     <<"a", delimiter, "b", delimiter>>},
        skip \in 0..1, filter \in {"nil", "a"}, fails \in BOOLEAN :
       scr = NewScroller(source, skip, filter, minReadBufferSize, fails)

SpecPoll ==
  /\ InitPoll
  /\ [][NextScroll]_vars
  /\ WF_vars(SkipInitial)
  /\ WF_vars(ReadLine)
  /\ WF_vars(Flush)
  /\ WF_vars(TimerExpires)
  /\ WF_vars(SelectTimer)
  /\ SF_vars(SelectDone)

\* the lines the scroller has to write: the complete lines behind the offset
\* at which it started that pass the filter
Due ==
  IF scr.start < 0 THEN <<>>
  ELSE MatchingLines(scr.filter, SubSeq(scr.source, scr.start + 1, Len(scr.source)))

\* all the lines to write are written and flushed, in the order of the source
CaughtUp == scr.pc # "skipInitial" /\ scr.target = Concat(Due)

\* C40: while the scroller is not stopped, by Stop or by an error, every
\* complete line behind its start that passes the filter is in the end written
\* to the target and flushed: the lines to write only become more, what is
\* written is at any time a first part of them, in the order of the source,
\* and again and again it is all of them. So a line that does not pass and a
\* last line without delimiter hold nothing back.
LinesArrive ==
  /\ [][(scr.pc # "skipInitial") =>
          /\ Len(Due') >= Len(Due) /\ SubSeq(Due', 1, Len(Due)) = Due
          /\ \E n \in 0..Len(Due') : scr'.target = Concat(SubSeq(Due', 1, n))]_vars
  /\ []<>(scr.status = "stopped" \/ CaughtUp)

\* a working scroller with a filter has written the line that was completed
\* by what was appended, behind a line that did not pass the filter
LinesArriveWitness ==
  /\ scr.on
  /\ scr.status = "working"
  /\ scr.filter = "a"
  /\ scr.initial = <<"b", delimiter, "a">>
  /\ scr.source = <<"b", delimiter, "a", delimiter>>
  /\ scr.start = 0
  /\ scr.target = <<"a", delimiter>>

====
